---- MODULE Spec2Model ----
(***************************************************************************)
(* Model of the Garmin dashboard (src/app.py) and of its collector         *)
(* (src/gsheet.py): calc_period, format_metric and the insight table, the  *)
(* per-day activity aggregation (_agg), the unit converters                *)
(* (mmss_to_minutes, format_pace, format_hours, pace_str), the correlation *)
(* section, update_sheet, sync_entire_dailyhud_to_notion with its          *)
(* paginated key query (notion_query_all_keys), the load of the pace       *)
(* column, and the automatic and manual sync sections of the script.       *)
(*                                                                         *)
(* Numbers: a pandas float is modelled as an exact fraction num/den in     *)
(* lowest terms (den > 0), so that a mean such as 15/2 is representable.   *)
(* Dates: a calendar date is its proleptic Gregorian ordinal, as Python's  *)
(* datetime.date.toordinal() (2024-01-01 = 738886, a Monday).              *)
(* Text: a str that is parsed or compared is the sequence of its           *)
(* characters.                                                             *)
(***************************************************************************)
EXTENDS Integers, Sequences, FiniteSets, TLC

VARIABLES
    clock,      \* the system date, what dt.date.today() returns
    daily_df,   \* the DailyHUD table: [columns, rows]
    call,       \* arguments of the last calc_period call
    frame,      \* locals of the last calc_period call: start, subset, vals
    ret,        \* value returned by the last calc_period call
    insight_df, \* the insight table built by the insight_rows loop
    acts_df,    \* the Activities table: sequence of rows
    acts_daily, \* the per (day, type) aggregate of acts_df
    corr_metrics, \* the metrics selected for the correlation matrix
    corr,       \* outcome of the correlation section
    conv,       \* the last converter call: function, argument, outcome
    sheet,      \* the rows of one worksheet of the collector
    runs,       \* number of update_sheet calls made on the worksheet
    supplied,   \* per key, the row last handed to update_sheet (history)
    pages,      \* the pages of the Notion database, in order of creation
    sync,       \* progress of sync_entire_dailyhud_to_notion
    session,    \* st.session_state and the outcome of the last script run
    query       \* progress of notion_query_all_keys, request by request

\* the state of the period aggregation, the insight table and the activities
calcVars == <<clock, daily_df, call, frame, ret, insight_df, acts_df, acts_daily>>

\* the state of the correlation section
corrVars == <<corr_metrics, corr>>

\* the state of the unit converters
convVars == <<conv>>

\* the state of the collector's worksheet
sheetVars == <<sheet, runs, supplied>>

\* the Notion database and the sync in progress
notionVars == <<pages, sync>>

\* the browser session of the dashboard
sessionVars == <<session>>

\* the paginated query in progress
queryVars == <<query>>

vars == <<calcVars, corrVars, convVars, sheetVars, notionVars, sessionVars, queryVars>>

----------------------------------------------------------------------------
(* Bounds of the model *)

MaxRows == 2
MaxDays == 378
MaxActs == 2
MaxCorrRows == 3
MaxText == 5
MaxSeconds == 700
MaxRuns == 3
MaxBatch == 2
MaxSyncRows == 3
MaxSyncs == 3
MaxReruns == 4
MaxRequests == 4
MaxDbPages == 3
\* page_size of the query, 100 in the code, kept small so that a database
\* of MaxDbPages pages takes several requests
PageSize == 1

----------------------------------------------------------------------------
(* Calendar arithmetic of datetime.date *)

Years == 2023..2025

IsLeap(y) == y % 4 = 0 /\ (y % 100 # 0 \/ y % 400 = 0)

DaysInMonth(y, m) ==
    IF m = 2 THEN (IF IsLeap(y) THEN 29 ELSE 28)
    ELSE IF m \in {4, 6, 9, 11} THEN 30 ELSE 31

DaysBeforeYear(y) ==
    LET k == y - 1 IN k * 365 + (k \div 4) - (k \div 100) + (k \div 400)

DaysBeforeMonth(y, m) ==
    <<0, 31, 59, 90, 120, 151, 181, 212, 243, 273, 304, 334>>[m]
        + (IF m > 2 /\ IsLeap(y) THEN 1 ELSE 0)

\* datetime.date(y, m, d).toordinal()
Ymd2Ord(y, m, d) == DaysBeforeYear(y) + DaysBeforeMonth(y, m) + d

YearOf(n) ==
    CHOOSE y \in Years : DaysBeforeYear(y) < n /\ n <= DaysBeforeYear(y + 1)

MonthOf(n) ==
    LET y == YearOf(n)
        r == n - DaysBeforeYear(y)
    IN CHOOSE m \in 1..12 :
           DaysBeforeMonth(y, m) < r /\ r <= DaysBeforeMonth(y, m) + DaysInMonth(y, m)

DayOf(n) ==
    LET y == YearOf(n) IN n - DaysBeforeYear(y) - DaysBeforeMonth(y, MonthOf(n))

\* date.weekday(): Monday = 0 ... Sunday = 6
Weekday(n) == (n + 6) % 7

----------------------------------------------------------------------------
(* Cells, coercions and floats *)

\* pd.NaT: the missing date (no ordinal is 0)
NaT == 0

NumCell(v)  == [t |-> "num",  v |-> v]
StrCell     == [t |-> "str",  v |-> 0]     \* text that parses neither as number nor date
NanCell     == [t |-> "nan",  v |-> 0]     \* empty cell
DateCell(n) == [t |-> "date", v |-> n]     \* a parseable date

\* pd.to_numeric(errors="coerce"): a number stays, anything else becomes NaN
ToNumeric(c) == IF c.t = "num" THEN c ELSE NanCell

\* pd.to_datetime(errors="coerce"): a date stays, anything else becomes NaT
ToDatetime(c) == IF c.t = "date" THEN c.v ELSE NaT

IsNa(c) == c.t # "num"

RECURSIVE Gcd(_, _)
Gcd(a, b) == IF b = 0 THEN a ELSE Gcd(b, a % b)

Abs(x) == IF x < 0 THEN -x ELSE x

None     == [t |-> "None",     num |-> 0, den |-> 1]
KeyError == [t |-> "KeyError", num |-> 0, den |-> 1]

\* the float n/d, d > 0, in lowest terms
Float(n, d) ==
    LET g == Gcd(Abs(n), d) IN [t |-> "float", num |-> n \div g, den |-> d \div g]

RECURSIVE SumSeq(_)
SumSeq(s) == IF s = <<>> THEN 0 ELSE Head(s) + SumSeq(Tail(s))

\* int(x) of the float n/d: truncation towards zero
Trunc(n, d) == IF n >= 0 THEN n \div d ELSE -((-n) \div d)

\* round(x) of the float n/d, d > 0: to nearest, ties to even
RoundHalfEven(n, d) ==
    LET q == n \div d
        r == n - q * d
    IN IF 2 * r < d THEN q
       ELSE IF 2 * r > d THEN q + 1
       ELSE IF q % 2 = 0 THEN q ELSE q + 1

----------------------------------------------------------------------------
(* calc_period *)

Periods == <<"WTD", "MTD", "QTD", "YTD", "TOTAL">>

PeriodSet == {Periods[i] : i \in 1..Len(Periods)}

\* filter_col=None
NoFilter == ""

Indices(df) == 1..Len(df.rows)

\* temp[date_col] after pd.to_datetime(..., errors="coerce")
DateOf(df, i) == ToDatetime(df.rows[i]["Data"])

\* mutant of MinDate: the date of the first row, as if the table were sorted
MinDateFirstRow(df) == IF df.rows = <<>> THEN NaT ELSE DateOf(df, 1)

\* Series.min() skips NaT and is NaT when nothing is left; NaT.date() is NaT
MinDate(df) ==
    LET ds == {DateOf(df, i) : i \in Indices(df)} \ {NaT}
    IN IF ds = {} THEN NaT ELSE CHOOSE d \in ds : \A e \in ds : d <= e

\* mutant of PeriodStart: isoweekday() (Monday = 1) in place of weekday()
PeriodStartIsoWeekday(freq, today, df) ==
    CASE freq = "WTD" -> today - (Weekday(today) + 1)
      [] freq = "MTD" -> Ymd2Ord(YearOf(today), MonthOf(today), 1)
      [] freq = "QTD" ->
            LET q == ((MonthOf(today) - 1) \div 3) + 1
            IN Ymd2Ord(YearOf(today), 3 * (q - 1) + 1, 1)
      [] freq = "YTD" -> Ymd2Ord(YearOf(today), 1, 1)
      [] OTHER -> MinDate(df)

\* mutant of PeriodStart: the quarter's first month taken as 3 * q - 1
PeriodStartQuarterOff(freq, today, df) ==
    CASE freq = "WTD" -> today - Weekday(today)
      [] freq = "MTD" -> Ymd2Ord(YearOf(today), MonthOf(today), 1)
      [] freq = "QTD" ->
            LET q == ((MonthOf(today) - 1) \div 3) + 1
            IN Ymd2Ord(YearOf(today), 3 * q - 1, 1)
      [] freq = "YTD" -> Ymd2Ord(YearOf(today), 1, 1)
      [] OTHER -> MinDate(df)

\* mutant of PeriodStart: the month taken as the 30 days before today
PeriodStartRollingMonth(freq, today, df) ==
    CASE freq = "WTD" -> today - Weekday(today)
      [] freq = "MTD" -> today - 30
      [] freq = "QTD" ->
            LET q == ((MonthOf(today) - 1) \div 3) + 1
            IN Ymd2Ord(YearOf(today), 3 * (q - 1) + 1, 1)
      [] freq = "YTD" -> Ymd2Ord(YearOf(today), 1, 1)
      [] OTHER -> MinDate(df)

\* the start of the period, counted back from today
PeriodStart(freq, today, df) ==
    CASE freq = "WTD" -> today - Weekday(today)
      [] freq = "MTD" -> Ymd2Ord(YearOf(today), MonthOf(today), 1)
      [] freq = "QTD" ->
            LET q == ((MonthOf(today) - 1) \div 3) + 1
            IN Ymd2Ord(YearOf(today), 3 * (q - 1) + 1, 1)
      [] freq = "YTD" -> Ymd2Ord(YearOf(today), 1, 1)
      [] OTHER -> MinDate(df)

\* temp[date_col].dt.date >= start: a comparison with NaT on either side is False
WindowMask(d, start) == d # NaT /\ start # NaT /\ d >= start

\* the index labels of s that satisfy Keep, in order
RECURSIVE SelectIdx(_, _)
SelectIdx(s, keep) ==
    IF s = <<>> THEN <<>>
    ELSE (IF Head(s) \in keep THEN <<Head(s)>> ELSE <<>>) \o SelectIdx(Tail(s), keep)

AllIdx(df) == [i \in Indices(df) |-> i]

\* subset = temp.loc[mask]
Window(df, start) ==
    SelectIdx(AllIdx(df), {i \in Indices(df) : WindowMask(DateOf(df, i), start)})

\* mutant of FilterPass: >= 0 in place of > 0
FilterPassNonNegative(c) == ToNumeric(c).t = "num" /\ ToNumeric(c).v >= 0

\* the co-occurrence test on one row: pd.to_numeric(subset[filter_col]) > 0
FilterPass(c) == ToNumeric(c).t = "num" /\ ToNumeric(c).v > 0

\* if filter_col and filter_col in subset.columns: keep the rows with filter_col > 0
CoFilter(df, subset, filter_col) ==
    IF filter_col # NoFilter /\ filter_col \in df.columns
    THEN SelectIdx(subset, {i \in Indices(df) : FilterPass(df.rows[i][filter_col])})
    ELSE subset

\* mutant of DropNa: fillna(0) in place of dropna()
FillNaZero(df, subset, col) ==
    [k \in 1..Len(subset) |->
        LET c == ToNumeric(df.rows[subset[k]][col])
        IN [i |-> subset[k], v |-> IF IsNa(c) THEN 0 ELSE c.v]]

\* vals = pd.to_numeric(subset[col], errors="coerce").dropna(), index kept
RECURSIVE DropNa(_, _, _)
DropNa(df, subset, col) ==
    IF subset = <<>> THEN <<>>
    ELSE LET i == Head(subset)
             c == ToNumeric(df.rows[i][col])
         IN (IF IsNa(c) THEN <<>> ELSE <<[i |-> i, v |-> c.v]>>)
                \o DropNa(df, Tail(subset), col)

IsPositive(e) == e.v > 0

IsNonNegative(e) == e.v >= 0

\* mutant of OnlyPositive: vals >= 0 in place of vals > 0
OnlyNonNegative(vals, only_positive) ==
    IF only_positive THEN SelectSeq(vals, IsNonNegative) ELSE vals

\* if only_positive: vals = vals[vals > 0]
OnlyPositive(vals, only_positive) ==
    IF only_positive THEN SelectSeq(vals, IsPositive) ELSE vals

Values(vals) == [k \in 1..Len(vals) |-> vals[k].v]

\* float("nan"), the mean of nothing
NaN == [t |-> "nan", num |-> 0, den |-> 1]

\* mutant of Aggregate: without the vals.empty check the sum of nothing is 0
AggregateNoEmptyCheck(vals, mode) ==
    IF mode = "sum" THEN Float(SumSeq([k \in 1..Len(vals) |-> vals[k].v]), 1)
    ELSE IF vals = <<>> THEN NaN
    ELSE Float(SumSeq([k \in 1..Len(vals) |-> vals[k].v]), Len(vals))

\* float(vals.sum() if mode == "sum" else vals.mean()), None when vals is empty
Aggregate(vals, mode) ==
    IF vals = <<>> THEN None
    ELSE IF mode = "sum" THEN Float(SumSeq(Values(vals)), 1)
    ELSE Float(SumSeq(Values(vals)), Len(vals))

\* mutant of MissingColumn: the column check left out
MissingColumnUnchecked(df, col) == FALSE

\* if col not in df.columns: return None
MissingColumn(df, col) == col \notin df.columns

\* mutant of DfCopy: temp = df, the same object under a second name
DfAlias(df) == [shared |-> TRUE, table |-> df]

\* temp = df.copy(): a new object holding the same cells
DfCopy(df) == [shared |-> FALSE, table |-> df]

\* temp[date_col] = pd.to_datetime(...); temp[col] = pd.to_numeric(...):
\* the two column assignments, written into the object temp names
CoerceColumns(temp, col) ==
    [temp EXCEPT !.table.rows =
        [i \in Indices(temp.table) |->
            [temp.table.rows[i] EXCEPT
                !["Data"] = IF @.t = "date" THEN @ ELSE NanCell,
                ![col]    = IF col = "Data" THEN @ ELSE ToNumeric(@)]]]

\* the caller's table when calc_period returns: the early return writes
\* nothing; after it the only assignments are to temp (subset is
\* temp.loc[mask], a new object again), so df shows them only if temp is df
InputAfterCall(df, col) ==
    IF MissingColumn(df, col) THEN df
    ELSE LET temp == CoerceColumns(DfCopy(df), col)
         IN IF temp.shared THEN temp.table ELSE df

NoFrame == [today |-> NaT, start |-> NaT, subset |-> <<>>, vals |-> <<>>]

\* calc_period(df, col, freq, only_positive=..., mode=..., filter_col=...);
\* the result carries the locals start, subset, vals and the returned value
calc_period(df, col, freq, only_positive, mode, filter_col) ==
    IF MissingColumn(df, col) THEN [frame |-> NoFrame, ret |-> None]
    ELSE IF col \notin df.columns THEN [frame |-> NoFrame, ret |-> KeyError]
    ELSE
        LET today  == clock
            start  == PeriodStart(freq, today, df)
            subset == CoFilter(df, Window(df, start), filter_col)
            vals   == OnlyPositive(DropNa(df, subset, col), only_positive)
        IN [frame |-> [today |-> today, start |-> start, subset |-> subset, vals |-> vals],
            ret   |-> Aggregate(vals, mode)]

----------------------------------------------------------------------------
(* Text, and float(str) *)

\* a str is the sequence of its characters
Digits == <<"0", "1", "2", "3", "4", "5", "6", "7", "8", "9">>

IsDigit(c)  == \E k \in 1..Len(Digits) : Digits[k] = c
DigitVal(c) == (CHOOSE k \in 1..Len(Digits) : Digits[k] = c) - 1

\* str(n) of an integer
RECURSIVE Str(_)
Str(n) ==
    IF n < 0 THEN <<"-">> \o Str(-n)
    ELSE IF n < 10 THEN <<Digits[n + 1]>>
    ELSE Str(n \div 10) \o <<Digits[(n % 10) + 1]>>

\* f"{n:02d}": padded with zeros to a width of 2, the sign first
Pad2(n) ==
    IF n < 0 THEN (IF Len(Str(n)) < 2 THEN <<"-", "0">> \o Str(-n) ELSE Str(n))
    ELSE IF n < 10 THEN <<"0">> \o Str(n)
    ELSE Str(n)

RECURSIVE LStrip(_)
LStrip(s) == IF s # <<>> /\ Head(s) = " " THEN LStrip(Tail(s)) ELSE s

RECURSIVE RStrip(_)
RStrip(s) == IF s # <<>> /\ s[Len(s)] = " " THEN RStrip(SubSeq(s, 1, Len(s) - 1)) ELSE s

\* s.strip()
Strip(s) == RStrip(LStrip(s))

\* s.replace(a, b) for single characters
Replace(s, a, b) == [k \in 1..Len(s) |-> IF s[k] = a THEN b ELSE s[k]]

\* s.split(sep)
RECURSIVE Split(_, _)
Split(s, sep) ==
    IF \E k \in 1..Len(s) : s[k] = sep
    THEN LET k == CHOOSE i \in 1..Len(s) : s[i] = sep /\ \A j \in 1..(i - 1) : s[j] # sep
         IN <<SubSeq(s, 1, k - 1)>> \o Split(SubSeq(s, k + 1, Len(s)), sep)
    ELSE <<s>>

\* the number written by a sequence of digits
RECURSIVE DigitsVal(_)
DigitsVal(s) ==
    IF s = <<>> THEN 0 ELSE 10 * DigitsVal(SubSeq(s, 1, Len(s) - 1)) + DigitVal(s[Len(s)])

RECURSIVE Pow10(_)
Pow10(k) == IF k = 0 THEN 1 ELSE 10 * Pow10(k - 1)

ValueError == [t |-> "ValueError", num |-> 0, den |-> 1]

\* float(s) of a str made of digits, ".", ",", ":", blanks and letters:
\* blanks around the number are ignored, the number is digits with at most
\* one "." and at least one digit; anything else raises ValueError
ParseFloat(s) ==
    LET t    == Strip(s)
        dots == {k \in 1..Len(t) : t[k] = "."}
        ok   == /\ \A k \in 1..Len(t) : IsDigit(t[k]) \/ t[k] = "."
                /\ Cardinality(dots) <= 1
                /\ \E k \in 1..Len(t) : IsDigit(t[k])
        frac == IF dots = {} THEN 0 ELSE Len(t) - (CHOOSE k \in dots : TRUE)
    IN IF ok THEN Float(DigitsVal(SelectSeq(t, IsDigit)), Pow10(frac)) ELSE ValueError

\* a str value
Text(s) == [t |-> "text", s |-> s]

\* float(value) of a number or of a str
ToFloat(value) == IF value.t = "text" THEN ParseFloat(value.s) ELSE value

\* pd.isna(value) or value == ""
IsMissing(value) ==
    \/ value.t \in {"None", "nan"}
    \/ (value.t = "text" /\ value.s = <<>>)

FloatAdd(x, y) == Float(x.num * y.den + y.num * x.den, x.den * y.den)

\* x * k and x / k for an integer k > 0
FloatTimes(x, k) == Float(x.num * k, x.den)
FloatOver(x, k)  == Float(x.num, x.den * k)

----------------------------------------------------------------------------

(* Formatting *)

Dash == [k |-> "-", a |-> 0, b |-> 0]

\* what a formatter leaves behind when it raises instead of returning
RaisedValueError == [k |-> "ValueError", a |-> 0, b |-> 0]

\* format_hours(value): "-" for a missing value and for a str that float()
\* rejects (caught by the try), else f"{horas:02d}:{minutos:02d}"
format_hours(value) ==
    LET f       == ToFloat(value)
        horas   == Trunc(f.num, f.den)
        minutos == RoundHalfEven((f.num - horas * f.den) * 60, f.den)
    IN IF IsMissing(value) THEN Dash
       ELSE IF f = ValueError THEN Dash
       ELSE [k |-> "hh:mm", a |-> horas, b |-> minutos]

\* format_pace(value): "-" for a missing value and for 0; float(value) == 0
\* is evaluated before the try, so a str that float() rejects raises
\* ValueError; else f"{minutos}:{segundos:02d}"
format_pace(value) ==
    LET f        == ToFloat(value)
        minutos  == Trunc(f.num, f.den)
        segundos == RoundHalfEven((f.num - minutos * f.den) * 60, f.den)
    IN IF IsMissing(value) THEN Dash
       ELSE IF f = ValueError THEN RaisedValueError
       ELSE IF f.num = 0 THEN Dash
       ELSE [k |-> "m:ss", a |-> minutos, b |-> segundos]

\* mutant of mmss_to_minutes: the seconds read as hundredths of a minute
mmss_seconds_as_hundredths(x) ==
    IF IsMissing(x) THEN None
    ELSE IF x.t = "float" THEN x
    ELSE LET s     == Replace(Strip(x.s), ",", ".")
             parts == Split(s, ":")
             f     == [k \in 1..Len(parts) |-> ParseFloat(parts[k])]
         IN IF \E k \in 1..Len(parts) : f[k] = ValueError THEN None
            ELSE IF Len(parts) = 2 THEN FloatAdd(f[1], FloatOver(f[2], 100))
            ELSE IF Len(parts) = 3
                 THEN FloatAdd(FloatAdd(FloatTimes(f[1], 60), f[2]), FloatOver(f[3], 100))
            ELSE IF Len(parts) = 1 THEN f[1]
            ELSE None

\* mmss_to_minutes(x): None for a missing value, a number as it is, "mm:ss"
\* as m + sec / 60, "h:mm:ss" as h * 60 + m + sec / 60, any other str as
\* float(s); a ValueError of float() is caught and gives None
mmss_to_minutes(x) ==
    IF IsMissing(x) THEN None
    ELSE IF x.t = "float" THEN x
    ELSE LET s     == Replace(Strip(x.s), ",", ".")
             parts == Split(s, ":")
             f     == [k \in 1..Len(parts) |-> ParseFloat(parts[k])]
         IN IF Len(parts) = 2
            THEN IF f[1] = ValueError \/ f[2] = ValueError THEN None
                 ELSE FloatAdd(f[1], FloatOver(f[2], 60))
            ELSE IF Len(parts) = 3
            THEN IF \E k \in 1..3 : f[k] = ValueError THEN None
                 ELSE FloatAdd(FloatAdd(FloatTimes(f[1], 60), f[2]), FloatOver(f[3], 60))
            ELSE IF ParseFloat(s) = ValueError THEN None ELSE ParseFloat(s)

\* pd.to_numeric(x, errors="coerce") of one cell of a column read from the
\* sheet: a number stays, a str that parses as a number becomes it, any
\* other str ("05:30" included) and an empty cell become NaN
PdToNumeric(x) ==
    IF IsMissing(x) THEN NaN
    ELSE IF x.t = "float" THEN x
    ELSE IF ParseFloat(x.s) = ValueError THEN NaN
    ELSE ParseFloat(x.s)

\* the PaceNum cell of a day after the load: "Pace (min/km)" is one of
\* numeric_cols, coerced in the loop, and PaceNum is derived from the
\* coerced column afterwards
PaceNumAfterLoad(x) == mmss_to_minutes(PdToNumeric(x))

\* the str a formatter returns
Render(out) ==
    IF out.k = "-" THEN <<"-">>
    ELSE IF out.k = "m:ss" THEN Str(out.a) \o <<":">> \o Pad2(out.b)
    ELSE IF out.k = "hh:mm" THEN Pad2(out.a) \o <<":">> \o Pad2(out.b)
    ELSE Str(out.a)

\* pace_str(total_seconds, km) of the collector: "" without distance or
\* duration, else f"{sec_per_km // 60:02d}:{sec_per_km % 60:02d}"
pace_str(total_seconds, km) ==
    IF km.num = 0 \/ total_seconds = 0 THEN <<>>
    ELSE LET sec_per_km == Trunc(total_seconds * km.den, km.num)
         IN Pad2(sec_per_km \div 60) \o <<":">> \o Pad2(sec_per_km % 60)

\* mutant of format_metric: without the None check
format_metric_unchecked(value, fmt) ==
    IF fmt = "time" THEN format_hours(value)
    ELSE IF fmt = "pace" THEN format_pace(value)
    ELSE IF fmt = "int" THEN [k |-> "int", a |-> RoundHalfEven(value.num, value.den), b |-> 0]
    ELSE [k |-> "num", a |-> RoundHalfEven(100 * value.num, value.den), b |-> 0]

\* format_metric(value, fmt): "-" for None; "int" is the value rounded to a
\* whole number, "num" the value rounded to hundredths (a = hundredths)
format_metric(value, fmt) ==
    IF value = None THEN Dash
    ELSE IF fmt = "time" THEN format_hours(value)
    ELSE IF fmt = "pace" THEN format_pace(value)
    ELSE IF fmt = "int" THEN [k |-> "int", a |-> RoundHalfEven(value.num, value.den), b |-> 0]
    ELSE [k |-> "num", a |-> RoundHalfEven(100 * value.num, value.den), b |-> 0]

----------------------------------------------------------------------------
(* The insight table *)

Metric(label, col, mode, fmt, only_positive, filter_col) ==
    [label |-> label, col |-> col, mode |-> mode, fmt |-> fmt,
     only_positive |-> only_positive, filter_col |-> filter_col]

\* the metric catalog, in source order
insights == <<
    Metric("Sono (h) - Media",               "SonoHorasNum",         "mean", "time", FALSE, NoFilter),
    Metric("Sono Deep (h) - Media",          "Sono Deep (h)",        "mean", "time", FALSE, NoFilter),
    Metric("Sono REM (h) - Media",           "Sono REM (h)",         "mean", "time", FALSE, NoFilter),
    Metric("Sono Light (h) - Media",         "Sono Light (h)",       "mean", "time", FALSE, NoFilter),
    Metric("Qualidade do sono (score)",      "Sono (score)",         "mean", "num",  FALSE, NoFilter),
    Metric("Distancia corrida (km) - Soma",  "Corrida (km)",         "sum",  "num",  TRUE,  "Corrida (km)"),
    Metric("Distancia corrida (km) - Media", "Corrida (km)",         "mean", "num",  TRUE,  "Corrida (km)"),
    Metric("Pace medio (min/km)",            "PaceNum",              "mean", "pace", TRUE,  "Corrida (km)"),
    Metric("Passos - Media",                 "Passos",               "mean", "int",  FALSE, NoFilter),
    Metric("Calorias (total dia) - Media",   "Calorias (total dia)", "mean", "num",  FALSE, NoFilter),
    Metric("Body Battery (max)",             "Body Battery (max)",   "mean", "num",  FALSE, NoFilter),
    Metric("Stress medio",                   "Stress (media)",       "mean", "num",  FALSE, NoFilter),
    Metric("Breathwork (min) - Media",       "Breathwork (min)",     "mean", "int",  TRUE,  NoFilter) >>

\* what a cell of the table would hold had the call raised
Raised == [k |-> "KeyError", a |-> 0, b |-> 0]

\* one row of insight_rows: the label and one formatted cell per period
InsightRow(df, cfg) ==
    [label |-> cfg.label,
     cells |-> [p \in PeriodSet |->
                   LET val == calc_period(df, cfg.col, p, cfg.only_positive, cfg.mode,
                                          cfg.filter_col).ret
                   IN IF val = KeyError THEN Raised ELSE format_metric(val, cfg.fmt)]]

\* the loop over insights.items()
BuildInsightRows(df) == [k \in 1..Len(insights) |-> InsightRow(df, insights[k])]

Unbuilt == [status |-> "unbuilt", rows |-> <<>>]

\* insight_df: the rows, unless a call raised and the script stopped there
BuildInsightDf(df) ==
    LET rows == BuildInsightRows(df)
    IN IF \E k \in 1..Len(rows), p \in PeriodSet : rows[k].cells[p] = Raised
       THEN [status |-> "raised", rows |-> <<>>]
       ELSE [status |-> "built", rows |-> rows]

----------------------------------------------------------------------------
(* Input tables *)

DailyColumns == {"Data", "Corrida (km)", "PaceNum"}

Row3(d, c, p) == ("Data" :> d) @@ ("Corrida (km)" :> c) @@ ("PaceNum" :> p)
Row2(d, c)    == ("Data" :> d) @@ ("Corrida (km)" :> c)

Day(y, m, d)  == DateCell(Ymd2Ord(y, m, d))

SeqsUpTo(S, n) == UNION {[1..k -> S] : k \in 0..n}

\* the day of the examples: Sunday 2024-01-07
ExampleToday == Ymd2Ord(2024, 1, 7)

CorridaCells == {StrCell, NumCell(-1), NumCell(0), NumCell(5)}
PaceCells    == {NanCell, NumCell(6)}
DataCells    == {Day(2023, 12, 31), DateCell(ExampleToday)}

DailyRows == {Row3(d, c, p) : d \in DataCells, c \in CorridaCells, p \in PaceCells}

\* a column holding [-1, 0, 3, null, 5] on the five days up to ExampleToday
ExampleMixed ==
    [columns |-> {"Data", "Corrida (km)"},
     rows |-> << Row2(Day(2024, 1, 3), NumCell(-1)), Row2(Day(2024, 1, 4), NumCell(0)),
                 Row2(Day(2024, 1, 5), NumCell(3)),  Row2(Day(2024, 1, 6), NanCell),
                 Row2(Day(2024, 1, 7), NumCell(5)) >>]

\* the week 2024-01-01..2024-01-07 with running distances [0,0,5,0,0,10,0]
ExampleWeek ==
    [columns |-> {"Data", "Corrida (km)"},
     rows |-> << Row2(Day(2024, 1, 1), NumCell(0)), Row2(Day(2024, 1, 2), NumCell(0)),
                 Row2(Day(2024, 1, 3), NumCell(5)), Row2(Day(2024, 1, 4), NumCell(0)),
                 Row2(Day(2024, 1, 5), NumCell(0)), Row2(Day(2024, 1, 6), NumCell(10)),
                 Row2(Day(2024, 1, 7), NumCell(0)) >>]

DailyTables ==
    {[columns |-> DailyColumns, rows |-> rs] : rs \in SeqsUpTo(DailyRows, MaxRows)}
        \cup {ExampleMixed, ExampleWeek}

\* a table spread over the calendar, unsorted, with one undated row
CalendarTable ==
    [columns |-> DailyColumns,
     rows |-> << Row3(Day(2024, 7, 1),   NumCell(1), NumCell(6)),
                 Row3(Day(2023, 12, 31), NumCell(1), NumCell(6)),
                 Row3(StrCell,           NumCell(1), NumCell(6)),
                 Row3(Day(2024, 1, 1),   NumCell(1), NumCell(6)),
                 Row3(Day(2024, 2, 29),  NumCell(1), NumCell(6)),
                 Row3(Day(2024, 4, 1),   NumCell(1), NumCell(6)),
                 Row3(Day(2024, 3, 31),  NumCell(1), NumCell(6)),
                 Row3(Day(2024, 12, 31), NumCell(1), NumCell(6)),
                 Row3(Day(2025, 1, 1),   NumCell(1), NumCell(6)),
                 Row3(Day(2024, 6, 30),  NumCell(1), NumCell(6)),
                 Row3(Day(2024, 10, 1),  NumCell(1), NumCell(6)) >>]

\* a table none of whose rows has a parseable date, and the table without rows
UndatedTable ==
    [columns |-> DailyColumns,
     rows |-> << Row3(StrCell, NumCell(1), NumCell(6)), Row3(NanCell, NumCell(5), NanCell) >>]

EmptyTable == [columns |-> DailyColumns, rows |-> <<>>]

CalendarTables == {CalendarTable, UndatedTable, EmptyTable}

\* the calendar sweep starts on Monday 2023-12-25 and lasts MaxDays days
FirstDay == Ymd2Ord(2023, 12, 25)

----------------------------------------------------------------------------
(* The activities aggregated per day and type *)

TextCell(s) == [t |-> "text", s |-> s]
NoText      == [t |-> "nan",  s |-> ""]

MinutesPerDay == 1440

\* a timestamp: minutes since ordinal 0, so that NaT stays 0
TsCell(y, m, d, minute) == DateCell(Ymd2Ord(y, m, d) * MinutesPerDay + minute)

\* Series.dt.normalize(): the timestamp at midnight
Normalize(ts) == (ts \div MinutesPerDay) * MinutesPerDay

\* the activity types of the model, in the order groupby sorts them
Tipos == <<"cycling", "running">>

TipoRank(s) == CHOOSE k \in 1..Len(Tipos) : Tipos[k] = s

\* acts_work = acts_df.dropna(subset=["Data", "Tipo"]), as index labels
ActsWork(adf) ==
    {i \in 1..Len(adf) : ToDatetime(adf[i].Data) # NaT /\ adf[i].Tipo.t = "text"}

\* the key (DataDay, Tipo) of a row of acts_work
GroupKey(adf, i) == <<Normalize(ToDatetime(adf[i].Data)), adf[i].Tipo.s>>

GroupKeys(adf) == {GroupKey(adf, i) : i \in ActsWork(adf)}

KeyLess(a, b) == a[1] < b[1] \/ (a[1] = b[1] /\ TipoRank(a[2]) < TipoRank(b[2]))

\* the keys in the order groupby yields them: sorted by day, then by type
RECURSIVE SortKeys(_)
SortKeys(K) ==
    IF K = {} THEN <<>>
    ELSE LET lo == CHOOSE a \in K : \A b \in K \ {a} : KeyLess(a, b)
         IN <<lo>> \o SortKeys(K \ {lo})

\* the rows of one group, in table order
GroupOf(adf, key) ==
    SelectIdx([i \in 1..Len(adf) |-> i], {i \in ActsWork(adf) : GroupKey(adf, i) = key})

\* g[column].fillna(0).sum()
RECURSIVE SumFillZero(_, _, _)
SumFillZero(adf, g, column) ==
    IF g = <<>> THEN 0
    ELSE LET c == ToNumeric(adf[Head(g)][column])
         IN (IF IsNa(c) THEN 0 ELSE c.v) + SumFillZero(adf, Tail(g), column)

\* g[column].sum(skipna=True): the sum of an all-NaN column is 0.0
RECURSIVE SumSkipNa(_, _, _)
SumSkipNa(adf, g, column) ==
    IF g = <<>> THEN 0
    ELSE LET c == ToNumeric(adf[Head(g)][column])
         IN (IF IsNa(c) THEN 0 ELSE c.v) + SumSkipNa(adf, Tail(g), column)

\* mutant of PaceOfGroup: the mean of the per-session paces
RECURSIVE SumOfPaces(_, _)
SumOfPaces(adf, g) ==
    IF g = <<>> THEN [num |-> 0, den |-> 1]
    ELSE LET r    == adf[Head(g)]
             rest == SumOfPaces(adf, Tail(g))
         IN [num |-> r.Duracao.v * rest.den + rest.num * r.Distancia.v,
             den |-> r.Distancia.v * rest.den]

MeanOfPaces(adf, g) ==
    LET ok == SelectIdx(g, {i \in 1..Len(adf) :
                               /\ adf[i].Distancia.t = "num" /\ adf[i].Distancia.v > 0
                               /\ adf[i].Duracao.t = "num"})
        s  == SumOfPaces(adf, ok)
    IN IF ok = <<>> THEN None ELSE Float(s.num, s.den * Len(ok))

\* pace_num_daily = (dur_sum / dist_sum) if (dist_sum and dist_sum > 0) else None
PaceOfGroup(adf, g) ==
    LET dist_sum == SumFillZero(adf, g, "Distancia")
        dur_sum  == SumFillZero(adf, g, "Duracao")
    IN IF dist_sum # 0 /\ dist_sum > 0 THEN Float(dur_sum, dist_sum) ELSE None

\* _agg(g) with the group's key, and the pace text added after the groupby
AggRow(adf, key) ==
    LET g == GroupOf(adf, key)
    IN [Data         |-> key[1],
        Tipo         |-> key[2],
        Distancia    |-> SumFillZero(adf, g, "Distancia"),
        Duracao      |-> SumFillZero(adf, g, "Duracao"),
        Calorias     |-> SumSkipNa(adf, g, "Calorias"),
        PaceNumDaily |-> PaceOfGroup(adf, g),
        Pace         |-> format_pace(PaceOfGroup(adf, g))]

\* acts_daily: empty for an empty sheet; when no row has both a date and a
\* type, groupby().apply() yields a frame without the PaceNumDaily column and
\* acts_daily["PaceNumDaily"] raises KeyError
ActsDaily(adf) ==
    IF adf = <<>> THEN [status |-> "built", rows |-> <<>>]
    ELSE IF ActsWork(adf) = {} THEN [status |-> "raised", rows |-> <<>>]
    ELSE LET keys == SortKeys(GroupKeys(adf))
         IN [status |-> "built", rows |-> [k \in 1..Len(keys) |-> AggRow(adf, keys[k])]]

ActRow(d, tipo, m) ==
    [Data |-> d, Tipo |-> tipo, Distancia |-> m[1], Duracao |-> m[2], Calorias |-> m[3]]

ActDates == {StrCell, TsCell(2024, 1, 6, 420), TsCell(2024, 1, 6, 1110), TsCell(2024, 1, 7, 420)}
ActTipos == {NoText, TextCell("running"), TextCell("cycling")}

\* distance (km), duration (min), calories of one session
ActMeasures == { <<NumCell(2), NumCell(10), NumCell(100)>>,
                 <<NumCell(8), NumCell(50), NanCell>>,
                 <<NanCell,    NumCell(10), NanCell>>,
                 <<NumCell(0), NumCell(10), NumCell(100)>>,
                 <<NumCell(2), StrCell,     NumCell(100)>> }

ActRows == {ActRow(d, tipo, m) : d \in ActDates, tipo \in ActTipos, m \in ActMeasures}

\* two runs on one day: 2 km in 10 min and 8 km in 50 min
ExampleRuns ==
    << ActRow(TsCell(2024, 1, 6, 420),  TextCell("running"), <<NumCell(2), NumCell(10), NanCell>>),
       ActRow(TsCell(2024, 1, 6, 1110), TextCell("running"), <<NumCell(8), NumCell(50), NanCell>>) >>

ActTables == SeqsUpTo(ActRows, MaxActs) \cup {ExampleRuns}

----------------------------------------------------------------------------
(* The correlation matrix *)

\* the options of the multiselect (four of the nine) and its default
CorrOptions    == <<"Sono (h)", "Sono (score)", "Pace (min/km)", "Breathwork (min)">>
DefaultMetrics == <<"Sono (h)", "Sono (score)">>

\* the selections: the options the user kept, in the order of the options
Selections ==
    {SelectIdx(CorrOptions, S) : S \in SUBSET {CorrOptions[k] : k \in 1..Len(CorrOptions)}}

\* the column a selected metric is read from: PaceNum stands in for
\* "Pace (min/km)" when the table has a PaceNum column
CorrSource(df, c) ==
    IF c = "Pace (min/km)" /\ "PaceNum" \in df.columns THEN "PaceNum" ELSE c

\* the selected metrics that df_corr[corr_metrics] does not find
CorrMissing(df, metrics) ==
    {c \in {metrics[k] : k \in 1..Len(metrics)} : CorrSource(df, c) \notin df.columns}

\* a cell of df_corr[corr_metrics].apply(pd.to_numeric, errors="coerce")
CorrCell(df, i, c) == ToNumeric(df.rows[i][CorrSource(df, c)])

\* .dropna(): the rows with a number in every selected column
CompleteCases(df, metrics) ==
    SelectIdx(AllIdx(df),
              {i \in 1..Len(df.rows) :
                  \A k \in 1..Len(metrics) : ~IsNa(CorrCell(df, i, metrics[k]))})

\* sum over the rows R of the products of columns x and y
RECURSIVE SumProd(_, _, _, _)
SumProd(df, R, x, y) ==
    IF R = <<>> THEN 0
    ELSE CorrCell(df, Head(R), x).v * CorrCell(df, Head(R), y).v + SumProd(df, Tail(R), x, y)

RECURSIVE ColSum(_, _, _)
ColSum(df, R, x) ==
    IF R = <<>> THEN 0 ELSE CorrCell(df, Head(R), x).v + ColSum(df, Tail(R), x)

\* n times the sum of the products of the deviations from the means
CoDeviation(df, R, x, y) ==
    Len(R) * SumProd(df, R, x, y) - ColSum(df, R, x) * ColSum(df, R, y)

Sgn(n) == IF n > 0 THEN 1 ELSE IF n < 0 THEN -1 ELSE 0

\* a correlation r is kept exactly as its sign and r * r = num / den
Corr(sign, num, den) ==
    LET g == Gcd(num, den)
    IN [t |-> "r", sign |-> sign, num |-> num \div g, den |-> den \div g]

CorrNaN == [t |-> "nan", sign |-> 0, num |-> 0, den |-> 1]
One     == Corr(1, 1, 1)

\* mutant of CorrEntry: the diagonal set to 1 whatever the data
CorrEntryUnitDiagonal(df, R, x, y) ==
    LET sxx == CoDeviation(df, R, x, x)
        syy == CoDeviation(df, R, y, y)
        sxy == CoDeviation(df, R, x, y)
    IN IF x = y THEN One
       ELSE IF sxx * syy = 0 THEN CorrNaN
       ELSE Corr(Sgn(sxy), sxy * sxy, sxx * syy)

\* DataFrame.corr(), Pearson: covxy / sqrt(ssqdm_x * ssqdm_y), and NaN when
\* the divisor is 0 (a single row, or a column without variation)
CorrEntry(df, R, x, y) ==
    LET sxx == CoDeviation(df, R, x, x)
        syy == CoDeviation(df, R, y, y)
        sxy == CoDeviation(df, R, x, y)
    IN IF sxx * syy = 0 THEN CorrNaN
       ELSE Corr(Sgn(sxy), sxy * sxy, sxx * syy)

\* mutant of CorrMatrix: each pair correlated over the rows complete for
\* that pair alone (what corr() would do without the dropna() before it)
CorrMatrixPairwise(df, R, metrics) ==
    [i \in 1..Len(metrics) |->
        [j \in 1..Len(metrics) |->
            CorrEntry(df, CompleteCases(df, <<metrics[i], metrics[j]>>),
                      metrics[i], metrics[j])]]

CorrMatrix(df, R, metrics) ==
    [i \in 1..Len(metrics) |->
        [j \in 1..Len(metrics) |-> CorrEntry(df, R, metrics[i], metrics[j])]]

NotRun == [status |-> "not run", cases |-> <<>>, matrix |-> <<>>]

\* the correlation section of the script for the selection corr_metrics
CorrelationStep(df, metrics) ==
    IF Len(metrics) >= 2 THEN
        IF CorrMissing(df, metrics) # {}
        THEN [status |-> "KeyError", cases |-> <<>>, matrix |-> <<>>]
        ELSE LET R == CompleteCases(df, metrics)
             IN IF R # <<>>
                THEN [status |-> "matrix", cases |-> R, matrix |-> CorrMatrix(df, R, metrics)]
                ELSE [status |-> "info: not enough data", cases |-> R, matrix |-> <<>>]
    ELSE [status |-> "info: select at least 2", cases |-> <<>>, matrix |-> <<>>]

CorrColumns == {"Data", "Sono (h)", "Sono (score)", "Pace (min/km)", "PaceNum"}

\* a row of the loaded table: the pace column is numeric after the load and
\* PaceNum repeats it
CorrRow(d, m) ==
    ("Data" :> d) @@ ("Sono (h)" :> m[1]) @@ ("Sono (score)" :> m[2])
        @@ ("Pace (min/km)" :> m[3]) @@ ("PaceNum" :> m[3])

CorrMeasures ==
    {<<h, s, p>> : h \in {NumCell(6), NumCell(8), StrCell},
                   s \in {NumCell(70), NumCell(90)},
                   p \in {NanCell, NumCell(5)}}

\* tables of 1..MaxCorrRows rows on consecutive days up to ExampleToday
CorrTables ==
    {[columns |-> CorrColumns,
      rows |-> [i \in 1..Len(ms) |-> CorrRow(DateCell(ExampleToday - Len(ms) + i), ms[i])]] :
        ms \in SeqsUpTo(CorrMeasures, MaxCorrRows) \ {<<>>}}

----------------------------------------------------------------------------

(* Inputs of the unit converters *)

NoConv == [fn |-> "", x |-> None, out |-> None]

\* the characters of the texts: digits, the separators, a blank and a letter
Alphabet == {"0", "5", ":", ",", ".", " ", "a"}

\* numbers: 0, 5.5, -5.5, 5:59 as minutes, 5.999 and 7.9999 hours
ConvNumbers ==
    {Float(0, 1), Float(11, 2), Float(-11, 2), Float(359, 60), Float(5999, 1000),
     Float(79999, 10000)}

\* null, NaN, numbers, and every text of up to MaxText characters ("" included)
ConvInputs ==
    {None, NaN} \cup ConvNumbers \cup {Text(s) : s \in SeqsUpTo(Alphabet, MaxText)}

\* the distances (km) of the collector's pace_str calls: none, 1 and 2.5
Kms == {Float(0, 1), Float(1, 1), Float(5, 2)}

----------------------------------------------------------------------------

(* The collector's worksheet and update_sheet *)

\* key values (a date for DailyHUD, an activity id for Activities) and the
\* values of the sort_by column
Keys     == {"k1", "k2"}
SortVals == {"2024-01-06", "2024-01-07"}

\* a row: its key, its sort_by cell and the run that collected it
SheetRow(key, data, run) == [key |-> key, data |-> data, run |-> run]

NoRow == [key |-> "", data |-> "", run |-> 0]

\* the batches a run can hand to update_sheet: up to MaxBatch rows
Batches(run) ==
    SeqsUpTo({SheetRow(k, d, run) : k \in Keys, d \in SortVals}, MaxBatch)

\* .drop_duplicates(subset=key_cols, keep="last")
DropDuplicatesLast(rows) ==
    LET kept == SelectIdx([i \in 1..Len(rows) |-> i],
                          {j \in 1..Len(rows) :
                              \A h \in (j + 1)..Len(rows) : rows[h].key # rows[j].key})
    IN [n \in 1..Len(kept) |-> rows[kept[n]]]

\* the rows of s in some order
Arrangements(s) ==
    {[i \in 1..Len(s) |-> s[p[i]]] :
        p \in {q \in [1..Len(s) -> 1..Len(s)] : \A a, b \in 1..Len(s) : a # b => q[a] # q[b]}}

\* .sort_values(sort_by): ascending in the sort_by column; the default
\* quicksort does not fix the order of rows with equal values
SortValRank(d) == IF d = "2024-01-06" THEN 1 ELSE 2

SortValues(rows) ==
    {s \in Arrangements(rows) :
        \A i \in 1..(Len(s) - 1) : SortValRank(s[i].data) <= SortValRank(s[i + 1].data)}

\* the tables update_sheet(df, ...) can write over the old content
update_sheet(old_df, df) ==
    IF old_df # <<>>
    THEN SortValues(DropDuplicatesLast(old_df \o df))
    ELSE {df}

----------------------------------------------------------------------------

(* The Notion database and sync_entire_dailyhud_to_notion *)

\* date.isoformat(): "YYYY-MM-DD"
IsoFormat(n) ==
    Str(YearOf(n)) \o <<"-">> \o Pad2(MonthOf(n)) \o <<"-">> \o Pad2(DayOf(n))

\* the text of a Key property: a prefix and the rest
KeyText(prefix, rest) == [prefix |-> prefix, rest |-> rest]

\* a page whose Key property holds no text
NoKey == KeyText("", <<>>)

\* build_key_for_row(row): f"DailyHUD::{day_str}"
build_key_for_row(row) == KeyText("DailyHUD::", IsoFormat(ToDatetime(row["Data"])))

\* the distinct dates of df after to_datetime, dropna(subset=["Data"]) and
\* groupby(df["Data"].dt.date).last(): one row per date, the last one
SyncDates(df) ==
    {ToDatetime(df.rows[i]["Data"]) : i \in {j \in 1..Len(df.rows) :
                                                ToDatetime(df.rows[j]["Data"]) # NaT}}

\* the last row of df on date d
LastRowOn(df, d) ==
    df.rows[CHOOSE i \in 1..Len(df.rows) :
               /\ ToDatetime(df.rows[i]["Data"]) = d
               /\ \A j \in (i + 1)..Len(df.rows) : ToDatetime(df.rows[j]["Data"]) # d]

\* the rows of the de-duplicated df, by ascending date
RECURSIVE SyncRows(_, _)
SyncRows(df, D) ==
    IF D = {} THEN <<>>
    ELSE LET lo == CHOOSE d \in D : \A e \in D : d <= e
         IN <<LastRowOn(df, lo)>> \o SyncRows(df, D \ {lo})

\* mutant of notion_query_all_keys: only the first page found is read
notion_query_first_key(db) ==
    IF db = <<>> THEN {} ELSE {db[1].key} \ {NoKey}

\* notion_query_all_keys: the Key texts of the pages that have one
notion_query_all_keys(db) == {db[i].key : i \in 1..Len(db)} \ {NoKey}

\* mutant of ToCreate: every row of df, whether or not its key exists
ToCreateAll(rows, existing_keys) ==
    [k \in 1..Len(rows) |-> build_key_for_row(rows[k])]

\* to_create: the keys of the rows whose key is not in existing_keys
RECURSIVE ToCreate(_, _)
ToCreate(rows, existing_keys) ==
    IF rows = <<>> THEN <<>>
    ELSE (IF build_key_for_row(Head(rows)) \notin existing_keys
          THEN <<build_key_for_row(Head(rows))>> ELSE <<>>)
         \o ToCreate(Tail(rows), existing_keys)

\* a page of the database: its Key text and the number of PATCH updates it got
Page(key) == [key |-> key, updates |-> 0]

\* prev is how the run before this one ended, "idle" when there was none
NoSync == [pc |-> "idle", existing_keys |-> {}, to_create |-> <<>>,
           created |-> 0, updated |-> 0, base |-> 0, run |-> 0, prev |-> "idle"]

\* the days of the synced tables
SyncDays == {Day(2024, 1, 6), Day(2024, 1, 7), StrCell}

\* daily tables of up to MaxSyncRows rows, dates repeated and missing included
SyncTables ==
    {[columns |-> DailyColumns,
      rows |-> [i \in 1..Len(ds) |-> Row3(ds[i], NumCell(5), NanCell)]] :
        ds \in SeqsUpTo(SyncDays, MaxSyncRows)}

\* the databases before the first sync: no two pages share a Key text
InitialPages ==
    LET k6 == Page(KeyText("DailyHUD::", IsoFormat(Ymd2Ord(2024, 1, 6))))
        k7 == Page(KeyText("DailyHUD::", IsoFormat(Ymd2Ord(2024, 1, 7))))
        ot == Page(KeyText("Other::", <<"x">>))
        nk == Page(NoKey)
    IN {<<>>, <<k6>>, <<k7>>, <<ot, k6>>, <<nk>>, <<k7, nk, k6>>}

----------------------------------------------------------------------------

(* The session: the automatic sync and the manual repopulate *)

\* what is remembered of the session when a script run begins: the flag,
\* how the automatic sync of the run before went, whether an automatic sync
\* has ever succeeded, and whether the manual repopulate has cleared the
\* flag since the last automatic sync that succeeded
NoBefore == [flag |-> FALSE, auto |-> "none", succeeded |-> FALSE, cleared |-> FALSE]

\* flag: "auto_synced_dailyhud" in st.session_state; token, db_id: whether
\* NOTION_TOKEN and NOTION_DAILYHUD_DB_ID are set; auto, manual: what the
\* two sync sections did in the last script run
NoSession ==
    [token |-> FALSE, db_id |-> FALSE, flag |-> FALSE, runs |-> 0,
     auto |-> "none", manual |-> "none",
     succeeded |-> FALSE, cleared |-> FALSE, before |-> NoBefore]

\* the ways sync_entire_dailyhud_to_notion can end on the database db: it
\* returns after creating every missing page, or it raises before the
\* first page, between two pages or after the last one
SyncOutcomes(df, db) ==
    LET to_create == ToCreate(SyncRows(df, SyncDates(df)), notion_query_all_keys(db))
        After(n)  == db \o [k \in 1..n |-> Page(to_create[k])]
    IN {[ok |-> TRUE, pages |-> After(Len(to_create))]}
          \cup {[ok |-> FALSE, pages |-> After(n)] : n \in 0..Len(to_create)}

\* mutant of AutoSync: the flag set before the sync is attempted
AutoSyncFlagFirst(token, db_id, flag, df, db) ==
    IF token /\ db_id
    THEN IF ~flag
         THEN {[auto  |-> IF r.ok THEN "ok" ELSE "failed", flag |-> TRUE, pages |-> r.pages] :
                  r \in SyncOutcomes(df, db)}
         ELSE {[auto |-> "skipped", flag |-> flag, pages |-> db]}
    ELSE {[auto |-> "unconfigured", flag |-> flag, pages |-> db]}

\* the automatic sync section: nothing without token or database id,
\* nothing when the flag is in the session; else the sync runs and the
\* flag is set after it returned, not when it raised
AutoSync(token, db_id, flag, df, db) ==
    IF token /\ db_id
    THEN IF ~flag
         THEN {[auto  |-> IF r.ok THEN "ok" ELSE "failed", flag |-> r.ok, pages |-> r.pages] :
                  r \in SyncOutcomes(df, db)}
         ELSE {[auto |-> "skipped", flag |-> flag, pages |-> db]}
    ELSE {[auto |-> "unconfigured", flag |-> flag, pages |-> db]}

\* the manual section when its button was pressed: an error message
\* without token or without target id (the text input, else the configured
\* id); else the flag is popped and the sync runs, and the flag is not set
ManualRepopulate(token, db_id, dbid_input, flag, df, db) ==
    IF ~token \/ ~(dbid_input \/ db_id)
    THEN {[manual |-> "refused", flag |-> flag, pages |-> db]}
    ELSE {[manual |-> IF r.ok THEN "ok" ELSE "failed", flag |-> FALSE, pages |-> r.pages] :
             r \in SyncOutcomes(df, db)}

\* one run of the script through both sections; button tells whether the
\* run was started by the repopulate button
ScriptRun(s, button, dbid_input, a, m) ==
    [s EXCEPT !.flag      = IF button THEN m.flag ELSE a.flag,
              !.runs      = @ + 1,
              !.auto      = a.auto,
              !.manual    = IF button THEN m.manual ELSE "none",
              !.succeeded = @ \/ a.auto = "ok",
              !.cleared   = IF button /\ m.manual \in {"ok", "failed"} THEN TRUE
                            ELSE IF a.auto = "ok" THEN FALSE
                            ELSE @,
              !.before    = [flag |-> s.flag, auto |-> s.auto,
                             succeeded |-> s.succeeded, cleared |-> s.cleared]]

----------------------------------------------------------------------------

(* notion_query_all_keys, request by request *)

\* None, for a cursor; the cursors Notion hands out are positions > 1
NoCursor == 0

\* start_cursor: payload["start_cursor"] (NoCursor while the key is absent);
\* sent: the start_cursor of every request sent; got: position of the first
\* result, has_more and next_cursor of every response received
NoQuery ==
    [pc |-> "idle", start_cursor |-> NoCursor, next_cursor |-> NoCursor,
     existing |-> {}, sent |-> <<>>, got |-> <<>>]

\* the Key texts found in the results of one response
KeysOf(results) == {results[i].key : i \in 1..Len(results)} \ {NoKey}

\* the answers Notion may give to a query of db from start_cursor: the
\* next PageSize results, has_more when results remain, and with has_more
\* the cursor of the first remaining result, or no next_cursor
Respond(db, start_cursor) ==
    LET first    == IF start_cursor = NoCursor THEN 1 ELSE start_cursor
        last     == IF first + PageSize - 1 < Len(db) THEN first + PageSize - 1 ELSE Len(db)
        has_more == last < Len(db)
        data(c)  == [first |-> first, results |-> SubSeq(db, first, last),
                     has_more |-> has_more, next_cursor |-> c]
    IN IF has_more THEN {data(last + 1), data(NoCursor)} ELSE {data(NoCursor)}

\* the databases queried: up to MaxDbPages pages, Key texts repeated or not
QueryDatabases ==
    SeqsUpTo({Page(KeyText("DailyHUD::", IsoFormat(Ymd2Ord(2024, 1, 6)))),
              Page(KeyText("DailyHUD::", IsoFormat(Ymd2Ord(2024, 1, 7)))),
              Page(KeyText("Other::", <<"x">>)),
              Page(NoKey)}, MaxDbPages)

----------------------------------------------------------------------------

(* State machine *)

NoCall == [col |-> "", freq |-> "", only_positive |-> FALSE, mode |-> "",
           filter_col |-> NoFilter]

CallCols    == {"Corrida (km)", "PaceNum", "Passos"}
CallFilters == {NoFilter, "Corrida (km)", "Passos"}
Modes       == {"mean", "sum"}

InitRest ==
    /\ call = NoCall
    /\ frame = NoFrame
    /\ ret = None
    /\ insight_df = Unbuilt
    /\ corr_metrics = DefaultMetrics
    /\ corr = NotRun
    /\ conv = NoConv
    /\ sheet = <<>>
    /\ runs = 0
    /\ supplied = [k \in Keys |-> NoRow]
    /\ sync = NoSync
    /\ query = NoQuery

Init ==
    /\ clock = ExampleToday
    /\ daily_df \in DailyTables
    /\ acts_df = <<>>
    /\ acts_daily = Unbuilt
    /\ pages = <<>>
    /\ session = NoSession
    /\ InitRest

InitCalendar ==
    /\ clock = FirstDay
    /\ daily_df \in CalendarTables
    /\ acts_df = <<>>
    /\ acts_daily = Unbuilt
    /\ pages = <<>>
    /\ session = NoSession
    /\ InitRest

InitActs ==
    /\ clock = ExampleToday
    /\ daily_df = EmptyTable
    /\ acts_df \in ActTables
    /\ acts_daily = Unbuilt
    /\ pages = <<>>
    /\ session = NoSession
    /\ InitRest

\* one call of calc_period on the daily table, up to its return statement
Call(col, freq, only_positive, mode, filter_col) ==
    LET r == calc_period(daily_df, col, freq, only_positive, mode, filter_col)
    IN /\ call = NoCall
       /\ insight_df = Unbuilt
       /\ call' = [col |-> col, freq |-> freq, only_positive |-> only_positive,
                   mode |-> mode, filter_col |-> filter_col]
       /\ frame' = r.frame
       /\ ret' = r.ret
       /\ daily_df' = InputAfterCall(daily_df, col)
       /\ UNCHANGED <<clock, insight_df, acts_df, acts_daily>>
       /\ UNCHANGED <<corrVars, convVars, sheetVars, notionVars, sessionVars, queryVars>>

\* the call returns: its arguments and locals are gone
Return ==
    /\ call # NoCall
    /\ call' = NoCall
    /\ frame' = NoFrame
    /\ ret' = None
    /\ UNCHANGED <<clock, daily_df, insight_df, acts_df, acts_daily>>
    /\ UNCHANGED <<corrVars, convVars, sheetVars, notionVars, sessionVars, queryVars>>

\* the insight section of the script: the loop and pd.DataFrame(insight_rows)
BuildInsights ==
    /\ call = NoCall
    /\ insight_df = Unbuilt
    /\ insight_df' = BuildInsightDf(daily_df)
    /\ UNCHANGED <<clock, daily_df, call, frame, ret, acts_df, acts_daily>>
    /\ UNCHANGED <<corrVars, convVars, sheetVars, notionVars, sessionVars, queryVars>>

\* the script is rerun: the table of the previous run is gone
Rerun ==
    /\ insight_df # Unbuilt
    /\ insight_df' = Unbuilt
    /\ UNCHANGED <<clock, daily_df, call, frame, ret, acts_df, acts_daily>>
    /\ UNCHANGED <<corrVars, convVars, sheetVars, notionVars, sessionVars, queryVars>>

\* midnight passes
Tick ==
    /\ call = NoCall
    /\ clock < FirstDay + MaxDays
    /\ clock' = clock + 1
    /\ UNCHANGED <<daily_df, call, frame, ret, insight_df, acts_df, acts_daily>>
    /\ UNCHANGED <<corrVars, convVars, sheetVars, notionVars, sessionVars, queryVars>>

\* the activities section of the script, up to the pace text column
AggregateActs ==
    /\ acts_daily = Unbuilt
    /\ acts_daily' = ActsDaily(acts_df)
    /\ UNCHANGED <<clock, daily_df, call, frame, ret, insight_df, acts_df>>
    /\ UNCHANGED <<corrVars, convVars, sheetVars, notionVars, sessionVars, queryVars>>

\* the script is rerun: the aggregate of the previous run is gone
RerunActs ==
    /\ acts_daily # Unbuilt
    /\ acts_daily' = Unbuilt
    /\ UNCHANGED <<clock, daily_df, call, frame, ret, insight_df, acts_df>>
    /\ UNCHANGED <<corrVars, convVars, sheetVars, notionVars, sessionVars, queryVars>>

AnyCall ==
    \E col \in CallCols, freq \in PeriodSet, only_positive \in BOOLEAN,
       mode \in Modes, filter_col \in CallFilters :
        Call(col, freq, only_positive, mode, filter_col)

PeriodCall ==
    \E freq \in PeriodSet, mode \in Modes : Call("Corrida (km)", freq, FALSE, mode, NoFilter)

Next == AnyCall \/ Return \/ BuildInsights \/ Rerun

NextCalendar == Tick \/ PeriodCall \/ Return

Spec == Init /\ [][Next]_vars

NextActs == AggregateActs \/ RerunActs

SpecCalendar == InitCalendar /\ [][NextCalendar]_vars

SpecActs == InitActs /\ [][NextActs]_vars

----------------------------------------------------------------------------
(* The correlation section as a state machine *)

InitCorr ==
    /\ clock = ExampleToday
    /\ daily_df \in CorrTables
    /\ acts_df = <<>>
    /\ acts_daily = Unbuilt
    /\ pages = <<>>
    /\ session = NoSession
    /\ InitRest

\* the user changes the selection and the script reruns its correlation section
Correlate ==
    /\ corr = NotRun
    /\ \E metrics \in Selections :
        /\ corr_metrics' = metrics
        /\ corr' = CorrelationStep(daily_df, metrics)
        /\ UNCHANGED <<calcVars, convVars, sheetVars, notionVars, sessionVars, queryVars>>

\* the page is reloaded: the selection is the default again, the outcome gone
ReloadCorr ==
    /\ corr # NotRun
    /\ corr_metrics' = DefaultMetrics
    /\ corr' = NotRun
    /\ UNCHANGED <<calcVars, convVars, sheetVars, notionVars, sessionVars, queryVars>>

NextCorr == Correlate \/ ReloadCorr

SpecCorr == InitCorr /\ [][NextCorr]_vars

----------------------------------------------------------------------------

(* The unit converters as a state machine *)

InitConv ==
    /\ clock = ExampleToday
    /\ daily_df = EmptyTable
    /\ acts_df = <<>>
    /\ acts_daily = Unbuilt
    /\ pages = <<>>
    /\ session = NoSession
    /\ InitRest

CallMmssToMinutes ==
    /\ conv = NoConv
    /\ \E x \in ConvInputs :
        /\ conv' = [fn |-> "mmss_to_minutes", x |-> x, out |-> mmss_to_minutes(x)]
        /\ UNCHANGED <<calcVars, corrVars, sheetVars, notionVars, sessionVars, queryVars>>

CallFormatPace ==
    /\ conv = NoConv
    /\ \E x \in ConvInputs :
        /\ conv' = [fn |-> "format_pace", x |-> x, out |-> format_pace(x)]
        /\ UNCHANGED <<calcVars, corrVars, sheetVars, notionVars, sessionVars, queryVars>>

CallFormatHours ==
    /\ conv = NoConv
    /\ \E x \in ConvInputs :
        /\ conv' = [fn |-> "format_hours", x |-> x, out |-> format_hours(x)]
        /\ UNCHANGED <<calcVars, corrVars, sheetVars, notionVars, sessionVars, queryVars>>

\* a pace written by the collector is read back and formatted:
\* format_pace(mmss_to_minutes(pace_str(total_seconds, km)))
PaceRoundTrip ==
    /\ conv = NoConv
    /\ \E total_seconds \in 0..MaxSeconds, km \in Kms :
        LET x == Text(pace_str(total_seconds, km))
        IN /\ conv' = [fn |-> "round trip", x |-> x, out |-> format_pace(mmss_to_minutes(x))]
           /\ UNCHANGED <<calcVars, corrVars, sheetVars, notionVars, sessionVars, queryVars>>

\* the dashboard loads a day whose pace cell the collector wrote with
\* pace_str, and derives PaceNum
LoadPace ==
    /\ conv = NoConv
    /\ \E total_seconds \in 0..MaxSeconds, km \in Kms :
        LET x == Text(pace_str(total_seconds, km))
        IN /\ conv' = [fn |-> "load", x |-> x, out |-> PaceNumAfterLoad(x)]
           /\ UNCHANGED <<calcVars, corrVars, sheetVars, notionVars, sessionVars, queryVars>>

NextConv ==
    CallMmssToMinutes \/ CallFormatPace \/ CallFormatHours \/ PaceRoundTrip \/ LoadPace

SpecConv == InitConv /\ [][NextConv]_vars

----------------------------------------------------------------------------

(* The collector's worksheet as a state machine *)

InitSheet ==
    /\ clock = ExampleToday
    /\ daily_df = EmptyTable
    /\ acts_df = <<>>
    /\ acts_daily = Unbuilt
    /\ pages = <<>>
    /\ session = NoSession
    /\ InitRest

\* the last row of df with key k, or what was supplied before
LastSupplied(df, k) ==
    LET at == {i \in 1..Len(df) : df[i].key = k}
    IN IF at = {} THEN supplied[k]
       ELSE df[CHOOSE i \in at : \A j \in at : j <= i]

\* one run of the collector on the worksheet: update_sheet(df, ...)
UpdateSheet ==
    /\ runs < MaxRuns
    /\ \E df \in Batches(runs + 1) :
          /\ sheet' \in update_sheet(sheet, df)
          /\ supplied' = [k \in Keys |-> LastSupplied(df, k)]
    /\ runs' = runs + 1
    /\ UNCHANGED <<calcVars, corrVars, convVars, notionVars, sessionVars, queryVars>>

NextSheet == UpdateSheet

SpecSheet == InitSheet /\ [][NextSheet]_vars

----------------------------------------------------------------------------

(* The Notion sync as a state machine *)

InitNotion ==
    /\ clock = ExampleToday
    /\ daily_df \in SyncTables
    /\ acts_df = <<>>
    /\ acts_daily = Unbuilt
    /\ pages \in InitialPages
    /\ session = NoSession
    /\ InitRest

\* sync_entire_dailyhud_to_notion up to the end of the to_create loop: the
\* table is de-duplicated, the schema ensured and the keys queried
SyncStart ==
    /\ sync.pc \in {"idle", "returned", "raised"}
    /\ sync.run < MaxSyncs
    /\ sync' = [pc            |-> "creating",
                existing_keys |-> notion_query_all_keys(pages),
                to_create     |-> ToCreate(SyncRows(daily_df, SyncDates(daily_df)),
                                           notion_query_all_keys(pages)),
                created       |-> 0,
                updated       |-> 0,
                base          |-> Len(pages),
                run           |-> sync.run + 1,
                prev          |-> sync.pc]
    /\ UNCHANGED <<calcVars, corrVars, convVars, sheetVars, sessionVars, queryVars, pages>>

\* a request of the schema calls or of the query fails: raise_for_status()
SyncStartFails ==
    /\ sync.pc \in {"idle", "returned", "raised"}
    /\ sync.run < MaxSyncs
    /\ sync' = [NoSync EXCEPT !.pc = "raised", !.base = Len(pages), !.run = sync.run + 1,
                              !.prev = sync.pc]
    /\ UNCHANGED <<calcVars, corrVars, convVars, sheetVars, sessionVars, queryVars, pages>>

\* one turn of the creation loop: notion_create_page_in_db, created += 1
CreatePage ==
    /\ sync.pc = "creating"
    /\ sync.to_create # <<>>
    /\ pages' = Append(pages, Page(Head(sync.to_create)))
    /\ sync' = [sync EXCEPT !.to_create = Tail(@), !.created = @ + 1]
    /\ UNCHANGED <<calcVars, corrVars, convVars, sheetVars, sessionVars, queryVars>>

\* the request of notion_create_page_in_db fails: the exception leaves the
\* function, the pages created so far stay
CreatePageFails ==
    /\ sync.pc = "creating"
    /\ sync.to_create # <<>>
    /\ sync' = [sync EXCEPT !.pc = "raised"]
    /\ UNCHANGED <<calcVars, corrVars, convVars, sheetVars, sessionVars, queryVars, pages>>

\* the request of notion_create_page_in_db times out (timeout=30) after
\* Notion has stored the page: the exception leaves the function all the same
CreatePageTimesOut ==
    /\ sync.pc = "creating"
    /\ sync.to_create # <<>>
    /\ pages' = Append(pages, Page(Head(sync.to_create)))
    /\ sync' = [sync EXCEPT !.pc = "raised"]
    /\ UNCHANGED <<calcVars, corrVars, convVars, sheetVars, sessionVars, queryVars>>

\* return created, updated
SyncReturn ==
    /\ sync.pc = "creating"
    /\ sync.to_create = <<>>
    /\ sync' = [sync EXCEPT !.pc = "returned"]
    /\ UNCHANGED <<calcVars, corrVars, convVars, sheetVars, sessionVars, queryVars, pages>>

NextNotion ==
    \/ SyncStart \/ SyncStartFails
    \/ CreatePage \/ CreatePageFails \/ CreatePageTimesOut
    \/ SyncReturn

SpecNotion == InitNotion /\ [][NextNotion]_vars

----------------------------------------------------------------------------

(* The session as a state machine *)

\* the section is reached with a table that has rows: on an empty table
\* the script stops at st.stop() before it
InitSession ==
    /\ clock = ExampleToday
    /\ daily_df \in {t \in SyncTables : t.rows # <<>>}
    /\ acts_df = <<>>
    /\ acts_daily = Unbuilt
    /\ pages \in InitialPages
    /\ session \in {[NoSession EXCEPT !.token = t, !.db_id = d] : t, d \in BOOLEAN}
    /\ InitRest

\* a rerun of the script caused by any widget other than the repopulate button
RerunScript ==
    /\ session.runs < MaxReruns
    /\ \E a \in AutoSync(session.token, session.db_id, session.flag, daily_df, pages) :
        /\ session' = ScriptRun(session, FALSE, FALSE, a, a)
        /\ pages' = a.pages
    /\ UNCHANGED <<calcVars, corrVars, convVars, sheetVars, sync, queryVars>>

\* the rerun caused by the repopulate button: the automatic section runs
\* first, as in every rerun, then the manual one
PressRepopulate ==
    /\ session.runs < MaxReruns
    /\ \E dbid_input \in BOOLEAN :
       \E a \in AutoSync(session.token, session.db_id, session.flag, daily_df, pages) :
       \E m \in ManualRepopulate(session.token, session.db_id, dbid_input, a.flag,
                                 daily_df, a.pages) :
        /\ session' = ScriptRun(session, TRUE, dbid_input, a, m)
        /\ pages' = m.pages
    /\ UNCHANGED <<calcVars, corrVars, convVars, sheetVars, sync, queryVars>>

NextSession == RerunScript \/ PressRepopulate

SpecSession == InitSession /\ [][NextSession]_vars

----------------------------------------------------------------------------

(* notion_query_all_keys as a state machine *)

InitQuery ==
    /\ clock = ExampleToday
    /\ daily_df = EmptyTable
    /\ acts_df = <<>>
    /\ acts_daily = Unbuilt
    /\ pages \in QueryDatabases
    /\ session = NoSession
    /\ InitRest

\* the call, up to the while: existing = {}, payload without start_cursor,
\* next_cursor = None
QueryStart ==
    /\ query.pc = "idle"
    /\ query' = [NoQuery EXCEPT !.pc = "loop"]
    /\ UNCHANGED <<calcVars, corrVars, convVars, sheetVars, notionVars, sessionVars>>

\* one turn of the while loop whose request is answered: start_cursor is
\* put into the payload if next_cursor is set, the keys of the results are
\* collected, and the loop is left when has_more is false
QueryRequest ==
    /\ query.pc = "loop"
    /\ Len(query.sent) < MaxRequests
    /\ LET start_cursor == IF query.next_cursor # NoCursor THEN query.next_cursor
                           ELSE query.start_cursor
       IN \E data \in Respond(pages, start_cursor) :
            query' = [pc           |-> IF data.has_more THEN "loop" ELSE "returned",
                      start_cursor |-> start_cursor,
                      next_cursor  |-> IF data.has_more THEN data.next_cursor
                                       ELSE query.next_cursor,
                      existing     |-> query.existing \cup KeysOf(data.results),
                      sent         |-> Append(query.sent, start_cursor),
                      got          |-> Append(query.got,
                                              [first |-> data.first,
                                               has_more |-> data.has_more,
                                               next_cursor |-> data.next_cursor])]
    /\ UNCHANGED <<calcVars, corrVars, convVars, sheetVars, notionVars, sessionVars>>

\* a turn whose request fails: r.raise_for_status() raises
QueryFails ==
    /\ query.pc = "loop"
    /\ Len(query.sent) < MaxRequests
    /\ query' = [query EXCEPT !.pc = "raised"]
    /\ UNCHANGED <<calcVars, corrVars, convVars, sheetVars, notionVars, sessionVars>>

NextQuery == QueryStart \/ QueryRequest \/ QueryFails

SpecQuery == InitQuery /\ [][NextQuery]_vars

----------------------------------------------------------------------------

(* Vocabulary of the properties *)

InCall == call # NoCall

\* the call got past the column check
Computed == InCall /\ call.col \in daily_df.columns

\* the numeric value of a cell of the daily table, if it has one
HasValue(i, col) == daily_df.rows[i][col].t = "num"
ValueAt(i, col)  == daily_df.rows[i][col].v

\* the rows whose value ended up in vals
Contributors == {frame.vals[k].i : k \in 1..Len(frame.vals)}

\* the rows left in subset
SubsetRows == {frame.subset[k] : k \in 1..Len(frame.subset)}

RECURSIVE SumOver(_, _)
SumOver(S, col) ==
    IF S = {} THEN 0
    ELSE LET i == CHOOSE j \in S : TRUE IN ValueAt(i, col) + SumOver(S \ {i}, col)

\* the sum or the mean of column col over the rows S, None over no rows
Expected(S, col, mode) ==
    IF S = {} THEN None
    ELSE IF mode = "sum" THEN Float(SumOver(S, col), 1)
    ELSE Float(SumOver(S, col), Cardinality(S))

\* the rows dated on or after the start the call resolved
InWindow == {i \in Indices(daily_df) :
                 /\ daily_df.rows[i]["Data"].t = "date"
                 /\ frame.start # NaT
                 /\ daily_df.rows[i]["Data"].v >= frame.start}

\* the rows whose co-occurrence column holds a number greater than 0
CoOccurring(filter_col) ==
    {i \in Indices(daily_df) : HasValue(i, filter_col) /\ ValueAt(i, filter_col) > 0}

----------------------------------------------------------------------------
(* Properties *)

\* C1: for every period and every table, calc_period on a column that is absent
\* from the table returns None without raising, and the insight table, which is
\* built without a crash, shows "-" in all five period cells of every metric
\* whose column is absent.
C1_MissingColumnIsDash ==
    /\ (InCall /\ call.col \notin daily_df.columns) => ret = None
    /\ insight_df.status # "raised"
    /\ insight_df.status = "built" =>
          \A k \in 1..Len(insights) :
              insights[k].col \notin daily_df.columns =>
                  /\ insight_df.rows[k].label = insights[k].label
                  /\ \A p \in PeriodSet : insight_df.rows[k].cells[p] = Dash

\* C1 witness: the table is built from a table with rows; the row of the absent
\* column "Passos" is all "-" while another metric shows a value.
C1_Witness ==
    /\ insight_df.status = "built"
    /\ Len(daily_df.rows) > 0
    /\ "Passos" \notin daily_df.columns
    /\ \A p \in PeriodSet : insight_df.rows[9].cells[p] = Dash
    /\ \E k \in 1..Len(insights), p \in PeriodSet : insight_df.rows[k].cells[p] # Dash

\* C2: for every period, mode and filter setting, calc_period on a column whose
\* values are all null or unparseable returns None: not 0, not an exception.
C2_AllNullIsNone ==
    (Computed /\ \A i \in Indices(daily_df) : ~HasValue(i, call.col)) => ret = None

\* C2 witness: a sum over TOTAL of a two-row column that holds no number.
C2_Witness ==
    /\ Computed
    /\ Len(daily_df.rows) = 2
    /\ \A i \in Indices(daily_df) : ~HasValue(i, call.col)
    /\ call.mode = "sum"
    /\ call.freq = "TOTAL"
    /\ ret = None

\* C3: with only_positive the values aggregated are exactly the values greater
\* than 0 of the rows left in the window: null, zero and negative values count
\* neither in the sum nor in the mean. [-1, 0, 3, null, 5] has mean 4; the week
\* [0,0,5,0,0,10,0] has sum 15 and mean 15/2.
C3_OnlyPositive ==
    (Computed /\ call.only_positive) =>
        LET S == {i \in SubsetRows : HasValue(i, call.col) /\ ValueAt(i, call.col) > 0}
        IN /\ Contributors = S
           /\ ret = Expected(S, call.col, call.mode)
           /\ (daily_df = ExampleMixed /\ call.mode = "mean") => ret = Float(4, 1)
           /\ (daily_df = ExampleWeek /\ call.mode = "sum") => ret = Float(15, 1)
           /\ (daily_df = ExampleWeek /\ call.mode = "mean") => ret = Float(15, 2)

\* C3 witness: the week-to-date mean of the example week is 15/2.
C3_Witness ==
    /\ daily_df = ExampleWeek
    /\ call.col = "Corrida (km)"
    /\ call.freq = "WTD"
    /\ call.only_positive
    /\ call.mode = "mean"
    /\ ret = Float(15, 2)

\* C4 (as claimed): the rows calc_period aggregates are exactly those with
\* start <= date <= today; no row dated after today contributes.
C4_WindowEndsToday ==
    Computed =>
        SubsetRows = {i \in Indices(daily_df) :
                         /\ daily_df.rows[i]["Data"].t = "date"
                         /\ frame.start # NaT
                         /\ frame.start <= daily_df.rows[i]["Data"].v
                         /\ daily_df.rows[i]["Data"].v <= frame.today}

\* C5: for every today the WTD start is the Monday of today's week: a Monday,
\* not after today, at most 6 days back, and today itself on a Monday.
C5_WtdStartIsMonday ==
    (Computed /\ call.freq = "WTD") =>
        /\ Weekday(frame.start) = 0
        /\ frame.start <= frame.today
        /\ frame.today - frame.start \in 0..6
        /\ frame.today - frame.start = Weekday(frame.today)

\* C5 witness: a WTD call on a Sunday, whose start lies 6 days back.
C5_Witness ==
    /\ Computed
    /\ call.freq = "WTD"
    /\ Weekday(frame.today) = 6
    /\ frame.start = frame.today - 6

\* C6: for every today the QTD start is day 1 of month 3*((month-1)//3)+1 of
\* today's year: the 1st of January, April, July or October, not after today.
C6_QtdStart ==
    (Computed /\ call.freq = "QTD") =>
        /\ DayOf(frame.start) = 1
        /\ MonthOf(frame.start) \in {1, 4, 7, 10}
        /\ MonthOf(frame.start) = 3 * ((MonthOf(frame.today) - 1) \div 3) + 1
        /\ YearOf(frame.start) = YearOf(frame.today)
        /\ frame.start <= frame.today

\* C6 witness: a QTD call on the last day of a quarter, 2024-03-31.
C6_Witness ==
    /\ Computed
    /\ call.freq = "QTD"
    /\ frame.today = Ymd2Ord(2024, 3, 31)
    /\ frame.start = Ymd2Ord(2024, 1, 1)

\* C7: TOTAL starts at the least date of the table; on a table without a
\* parseable date the call returns None and does not raise.
C7_TotalStart ==
    (Computed /\ call.freq = "TOTAL") =>
        LET dated == {i \in Indices(daily_df) : daily_df.rows[i]["Data"].t = "date"}
        IN /\ dated # {} =>
                 /\ \E i \in dated : frame.start = daily_df.rows[i]["Data"].v
                 /\ \A i \in dated : frame.start <= daily_df.rows[i]["Data"].v
                 /\ SubsetRows = dated
           /\ dated = {} => (ret = None /\ frame.vals = <<>>)
           /\ ret # KeyError

\* C7 witness: TOTAL on a table with rows, none of them dated, returns None.
C7_Witness ==
    /\ Computed
    /\ call.freq = "TOTAL"
    /\ daily_df = UndatedTable
    /\ ret = None

\* C8 (as claimed): whenever a filter column is given, only rows whose value in
\* that column is a number greater than 0 contribute.
C8_FilterAlwaysApplied ==
    (Computed /\ call.filter_col # NoFilter) =>
        \A i \in Contributors :
            /\ call.filter_col \in daily_df.columns
            /\ HasValue(i, call.filter_col)
            /\ ValueAt(i, call.filter_col) > 0

\* C8 (amended): whenever a filter column that is a column of the table is
\* given, the rows left are exactly the rows of the window whose value in that
\* column is a number greater than 0; a filter column that is absent from the
\* table filters nothing.
C8_FilterWhenPresent ==
    (Computed /\ call.filter_col # NoFilter) =>
        IF call.filter_col \in daily_df.columns
        THEN /\ SubsetRows = InWindow \cap CoOccurring(call.filter_col)
             /\ Contributors \subseteq CoOccurring(call.filter_col)
        ELSE SubsetRows = InWindow

\* C8 witness: pace filtered by distance: a row with a pace but distance 0 is
\* left out, a row with a pace and a positive distance is counted.
C8_Witness ==
    /\ Computed
    /\ call.col = "PaceNum"
    /\ call.filter_col = "Corrida (km)"
    /\ \E i \in Indices(daily_df) \ Contributors :
           /\ i \in InWindow
           /\ HasValue(i, "PaceNum")
           /\ daily_df.rows[i]["Corrida (km)"] = NumCell(0)
    /\ Contributors # {}

\* C9: calc_period returns None exactly when no value remains after the window
\* and the filters, and otherwise the sum or the mean of the remaining values;
\* an empty window in sum mode gives None, not 0, and format_metric shows None
\* as "-" in every format.
C9_NoneIffEmpty ==
    InCall =>
        LET S == IF call.col \notin daily_df.columns THEN {}
                 ELSE {i \in InWindow :
                          /\ (call.filter_col # NoFilter /\ call.filter_col \in daily_df.columns)
                                => i \in CoOccurring(call.filter_col)
                          /\ HasValue(i, call.col)
                          /\ call.only_positive => ValueAt(i, call.col) > 0}
        IN /\ (ret = None) <=> (S = {})
           /\ ret = Expected(S, call.col, call.mode)
           /\ ret = None => \A fmt \in {"num", "time", "pace", "int"} :
                                format_metric(ret, fmt) = Dash

\* C9 witness: a sum over a window that leaves out the only number of the
\* column returns None.
C9_Witness ==
    /\ Computed
    /\ call.mode = "sum"
    /\ ~call.only_positive
    /\ call.filter_col = NoFilter
    /\ \E i \in Indices(daily_df) : HasValue(i, call.col)
    /\ InWindow = {}
    /\ ret = None

\* the rows of acts_df with a date and a type that fall in the group of row k
\* of acts_daily
ActGroup(k) ==
    {i \in 1..Len(acts_df) :
        /\ acts_df[i].Data.t = "date"
        /\ acts_df[i].Tipo.t = "text"
        /\ (acts_df[i].Data.v \div MinutesPerDay) * MinutesPerDay = acts_daily.rows[k].Data
        /\ acts_df[i].Tipo.s = acts_daily.rows[k].Tipo}

RECURSIVE ActSum(_, _)
ActSum(S, column) ==
    IF S = {} THEN 0
    ELSE LET i == CHOOSE j \in S : TRUE
             c == acts_df[i][column]
         IN (IF c.t = "num" THEN c.v ELSE 0) + ActSum(S \ {i}, column)

\* C10: the derived pace of each (day, type) group is the sum of its durations
\* over the sum of its distances, missing values counted as 0, when the summed
\* distance is > 0, and None when it is zero: the ratio of the sums, so that
\* [2, 8] km in [10, 50] min gives 6 and not the mean 45/8 of the two paces.
C10_PaceIsRatioOfSums ==
    acts_daily.status = "built" =>
        /\ \A k \in 1..Len(acts_daily.rows) :
              LET dist == ActSum(ActGroup(k), "Distancia")
                  dur  == ActSum(ActGroup(k), "Duracao")
                  pace == acts_daily.rows[k].PaceNumDaily
              IN /\ ActGroup(k) # {}
                 /\ dist > 0 => (pace.t = "float" /\ pace.num * dist = dur * pace.den)
                 /\ dist = 0 => pace = None
        /\ acts_df = ExampleRuns =>
              /\ Len(acts_daily.rows) = 1
              /\ acts_daily.rows[1].PaceNumDaily = Float(6, 1)
              /\ acts_daily.rows[1].PaceNumDaily # Float(45, 8)

\* C10 witness: the two example runs are aggregated into one row of pace 6.
C10_Witness ==
    /\ acts_df = ExampleRuns
    /\ acts_daily.status = "built"
    /\ Len(acts_daily.rows) = 1
    /\ acts_daily.rows[1].Distancia = 10
    /\ acts_daily.rows[1].Duracao = 60
    /\ acts_daily.rows[1].PaceNumDaily = Float(6, 1)

----------------------------------------------------------------------------
(* The rows of the per-day activity aggregate *)

\* the (day, type) pairs of the rows of acts_df that have a date and a type
ActPairs ==
    {<<(acts_df[i].Data.v \div MinutesPerDay) * MinutesPerDay, acts_df[i].Tipo.s>> :
        i \in {j \in 1..Len(acts_df) :
                  acts_df[j].Data.t = "date" /\ acts_df[j].Tipo.t = "text"}}

\* the rows of acts_daily that carry the pair p
RowsOfPair(p) ==
    {k \in 1..Len(acts_daily.rows) :
        <<acts_daily.rows[k].Data, acts_daily.rows[k].Tipo>> = p}

\* C11: once the activities block has run, the daily aggregate exists and has
\* exactly one row for each (calendar date, type) pair that occurs among the
\* activity rows having both a date and a type, and no row for any other pair:
\* rows that miss the date or the type contribute to no output row.
C11_OneRowPerDayAndType ==
    acts_daily # Unbuilt =>
        /\ acts_daily.status = "built"
        /\ \A p \in ActPairs : Cardinality(RowsOfPair(p)) = 1
        /\ \A k \in 1..Len(acts_daily.rows) :
              <<acts_daily.rows[k].Data, acts_daily.rows[k].Tipo>> \in ActPairs

\* C12: the calories of a (day, type) group are the sum of the calories that
\* are present in the group, and a group whose rows all miss their calories
\* gets a null calories value, which is not the number 0.
C12_CaloriesNullWhenAllMissing ==
    acts_daily.status = "built" =>
        \A k \in 1..Len(acts_daily.rows) :
            LET have == {i \in ActGroup(k) : acts_df[i].Calorias.t = "num"}
            IN /\ have # {} => acts_daily.rows[k].Calorias = ActSum(have, "Calorias")
               /\ have = {} => acts_daily.rows[k].Calorias # 0

----------------------------------------------------------------------------
(* The correlation matrix: properties *)

\* row i of the daily table has a number in the selected column c
HasNumber(i, c) ==
    /\ c \in DOMAIN daily_df.rows[i]
    /\ daily_df.rows[i][c].t = "num"

\* the rows that have a number in every selected column
CompleteRows ==
    {i \in 1..Len(daily_df.rows) : \A k \in 1..Len(corr_metrics) : HasNumber(i, corr_metrics[k])}

\* column c takes two different values over the complete rows
Varies(c) ==
    \E a, b \in CompleteRows : daily_df.rows[a][c].v # daily_df.rows[b][c].v

\* C13 as stated: whenever a matrix is produced (any selection, any non-empty
\* complete-case subset, a single row or a constant column included), every
\* diagonal entry is exactly 1 and the matrix is symmetric.
C13_DiagonalAlwaysOne ==
    corr.status = "matrix" =>
        \A i, j \in 1..Len(corr_metrics) :
            /\ corr.matrix[i][i] = One
            /\ corr.matrix[i][j] = corr.matrix[j][i]

\* C13 amended: whenever a matrix is produced, entries [i][j] and [j][i] are
\* the same (both undefined or both the same number); the diagonal entry of a
\* column that takes at least two different values over the complete rows is
\* exactly 1; every entry in the row of a column that does not vary (a single
\* complete row, or a constant column) is undefined (NaN), its diagonal entry
\* included.
C13_DiagonalOneWhenVarying ==
    corr.status = "matrix" =>
        \A i, j \in 1..Len(corr_metrics) :
            /\ corr.matrix[i][j] = corr.matrix[j][i]
            /\ Varies(corr_metrics[i]) => corr.matrix[i][i] = One
            /\ ~Varies(corr_metrics[i]) => corr.matrix[i][j] = CorrNaN

\* C13 witness: sleep hours [6, 8, 6], scores [70, 90, 90] and the constant
\* pace [5, 5, 5]: the diagonal is 1, 1, NaN and r(hours, score) = +1/2.
C13_Witness ==
    /\ corr.status = "matrix"
    /\ corr_metrics = <<"Sono (h)", "Sono (score)", "Pace (min/km)">>
    /\ Len(corr.cases) = 3
    /\ corr.matrix[1][1] = One
    /\ corr.matrix[2][2] = One
    /\ corr.matrix[3][3] = CorrNaN
    /\ corr.matrix[1][2] = Corr(1, 1, 4)
    /\ corr.matrix[2][1] = Corr(1, 1, 4)

\* C14: once the correlation section has run, fewer than 2 selected columns
\* or no row complete over the selected columns gives an explicit
\* insufficient-data outcome and no matrix, and a matrix is produced only for
\* at least 2 selected columns with at least one complete row.
C14_InsufficientDataIsReported ==
    corr # NotRun =>
        /\ (Len(corr_metrics) < 2 \/ CompleteRows = {}) =>
              /\ corr.status \in {"info: select at least 2", "info: not enough data"}
              /\ corr.matrix = <<>>
        /\ corr.status = "matrix" => (Len(corr_metrics) >= 2 /\ CompleteRows # {})

----------------------------------------------------------------------------
(* The unit converters: properties *)

\* the pace text of a round trip is a well-formed "mm:ss"
IsMmSs(s) ==
    /\ Len(s) = 5
    /\ s[3] = ":"
    /\ \A k \in {1, 2, 4, 5} : IsDigit(s[k])

\* C15 as stated: for every "mm:ss" pace string written by the collector,
\* mmss_to_minutes followed by format_pace returns the same string.
C15_RoundTripSameString ==
    (conv.fn = "round trip" /\ conv.x.s # <<>>) =>
        /\ IsMmSs(conv.x.s)
        /\ Render(conv.out) = conv.x.s

\* C15 amended: for every "mm:ss" pace string written by the collector other
\* than "00:00", mmss_to_minutes followed by format_pace returns the same
\* minutes and seconds, the seconds on two digits and the minutes without
\* their leading zero ("05:30" gives "5:30", "10:05" gives "10:05");
\* "00:00" gives "-".
C15_RoundTripMinutesUnpadded ==
    (conv.fn = "round trip" /\ conv.x.s # <<>>) =>
        LET s == conv.x.s
        IN /\ IsMmSs(s)
           /\ conv.out # RaisedValueError
           /\ Render(conv.out) = IF s = <<"0", "0", ":", "0", "0">> THEN <<"-">>
                                 ELSE IF s[1] = "0" THEN Tail(s)
                                 ELSE s

\* C15 witness: "05:30" has gone through the round trip and came back "5:30".
C15_Witness ==
    /\ conv.fn = "round trip"
    /\ conv.x = Text(<<"0", "5", ":", "3", "0">>)
    /\ Render(conv.out) = <<"5", ":", "3", "0">>

\* the argument is missing or is a text that is no number and no duration
Malformed(x) ==
    \/ x.t \in {"None", "nan"}
    \/ /\ x.t = "text"
       /\ \/ x.s = <<>>
          \/ \E k \in 1..Len(x.s) : x.s[k] = "a"

\* C16: mmss_to_minutes, format_pace and format_hours return a value for
\* every input and never raise; a missing or malformed input gives None
\* (mmss_to_minutes) or "-" (format_pace, format_hours).
C16_ConvertersAreTotal ==
    conv.fn \in {"mmss_to_minutes", "format_pace", "format_hours"} =>
        /\ conv.out # RaisedValueError
        /\ Malformed(conv.x) =>
              conv.out = IF conv.fn = "mmss_to_minutes" THEN None ELSE Dash

----------------------------------------------------------------------------
(* The insight table: properties *)

\* the value calc_period returns for row k of the catalog and period p
InsightValue(k, p) ==
    calc_period(daily_df, insights[k].col, p, insights[k].only_positive,
                insights[k].mode, insights[k].filter_col).ret

\* C17: the insight table has exactly one row per label of the metric
\* catalog, in catalog order, and exactly the five period columns WTD, MTD,
\* QTD, YTD and TOTAL; every cell whose value is null is rendered "-",
\* whatever the format of the metric (num, time, pace, int).
C17_InsightTableShape ==
    insight_df # Unbuilt =>
        /\ insight_df.status = "built"
        /\ Len(insight_df.rows) = Len(insights)
        /\ Cardinality({insights[k].label : k \in 1..Len(insights)}) = Len(insights)
        /\ \A k \in 1..Len(insights) :
              /\ insight_df.rows[k].label = insights[k].label
              /\ DOMAIN insight_df.rows[k].cells = {"WTD", "MTD", "QTD", "YTD", "TOTAL"}
              /\ \A p \in {"WTD", "MTD", "QTD", "YTD", "TOTAL"} :
                    InsightValue(k, p) = None => insight_df.rows[k].cells[p] = Dash

\* C17 witness: the table is built from the example week; the running sum of
\* the week is a number, and a null cell of each format (time, num, pace,
\* int) shows "-".
C17_Witness ==
    /\ daily_df = ExampleWeek
    /\ insight_df.status = "built"
    /\ Len(insight_df.rows) = 13
    /\ insight_df.rows[6].cells["WTD"] = [k |-> "num", a |-> 1500, b |-> 0]
    /\ insights[1].fmt = "time" /\ insight_df.rows[1].cells["WTD"] = Dash
    /\ insights[5].fmt = "num"  /\ insight_df.rows[5].cells["MTD"] = Dash
    /\ insights[8].fmt = "pace" /\ insight_df.rows[8].cells["QTD"] = Dash
    /\ insights[9].fmt = "int"  /\ insight_df.rows[9].cells["TOTAL"] = Dash

----------------------------------------------------------------------------
(* The collector's worksheet: properties *)

RowsWithKey(k) == {i \in 1..Len(sheet) : sheet[i].key = k}

\* C18: after any sequence of update_sheet calls the sheet holds at most one
\* row per key; a key that was supplied has the row of the latest run that
\* supplied it, so that rows whose key is not in a new batch stay as they
\* were.
C18_OneRowPerKey ==
    \A k \in Keys :
        /\ Cardinality(RowsWithKey(k)) <= 1
        /\ supplied[k] # NoRow => \E i \in RowsWithKey(k) : sheet[i] = supplied[k]

----------------------------------------------------------------------------
(* The Notion sync: properties *)

\* the pages that were in the database when the running sync started, and
\* the pages it has created since
PagesBefore  == SubSeq(pages, 1, sync.base)
PagesCreated == SubSeq(pages, sync.base + 1, Len(pages))

\* the keys "DailyHUD::<date>" of the distinct dates of the daily table
\* that no page had when the sync started
MissingKeys ==
    {KeyText("DailyHUD::", IsoFormat(daily_df.rows[i]["Data"].v)) :
        i \in {j \in 1..Len(daily_df.rows) : daily_df.rows[j]["Data"].t = "date"}}
    \ {PagesBefore[i].key : i \in 1..Len(PagesBefore)}

\* C19: a sync that returns has created one page for exactly those distinct
\* dates of the daily table whose key "DailyHUD::<date>" was not among the
\* keys of the Notion query, has updated no existing page, and returns
\* (number of pages created, 0).
C19_CreatesExactlyMissing ==
    sync.pc = "returned" =>
        /\ {PagesCreated[i].key : i \in 1..Len(PagesCreated)} = MissingKeys
        /\ Len(PagesCreated) = Cardinality(MissingKeys)
        /\ \A i \in 1..Len(pages) : pages[i].updates = 0
        /\ sync.created = Len(PagesCreated)
        /\ sync.updated = 0

\* C19 witness: the table has 2024-01-06 twice and 2024-01-07 once, the
\* database had a page for 2024-01-07 only; the sync returned (1, 0) after
\* creating the page of 2024-01-06.
C19_Witness ==
    /\ sync.pc = "returned"
    /\ sync.run = 1
    /\ Len(daily_df.rows) = 3
    /\ Cardinality(SyncDates(daily_df)) = 2
    /\ Len(PagesBefore) = 1
    /\ PagesBefore[1].key = KeyText("DailyHUD::", <<"2", "0", "2", "4", "-", "0", "1", "-", "0", "7">>)
    /\ Len(PagesCreated) = 1
    /\ PagesCreated[1].key = KeyText("DailyHUD::", <<"2", "0", "2", "4", "-", "0", "1", "-", "0", "6">>)
    /\ sync.created = 1
    /\ sync.updated = 0

----------------------------------------------------------------------------
(* The aggregator and the system clock *)

\* what the call in progress returns when the system date is d
ResultOn(d) ==
    LET start  == PeriodStart(call.freq, d, daily_df)
        subset == CoFilter(daily_df, Window(daily_df, start), call.filter_col)
        vals   == OnlyPositive(DropNa(daily_df, subset, call.col), call.only_positive)
    IN IF MissingColumn(daily_df, call.col) THEN None ELSE Aggregate(vals, call.mode)

\* C20: the result of calc_period depends only on its explicit inputs: a
\* call with the same rows, column, period, mode and filters returns the same
\* value on whatever day it is executed, the system clock being never read
\* inside.
C20_ResultIndependentOfClock ==
    InCall =>
        /\ ResultOn(clock) = ret
        /\ \A d \in FirstDay..(FirstDay + MaxDays) : ResultOn(d) = ret

----------------------------------------------------------------------------
(* The aggregator and its input table *)

\* C21: a call of calc_period has no side effect on its input: whatever the
\* column, period, mode, only_positive and co-filter column, the caller's
\* table has the same columns, rows and cell values when the call returns
C21_InputUntouched ==
    [][(call = NoCall /\ call' # NoCall) => daily_df' = daily_df]_vars

\* a call with a co-filter is in progress on a table whose aggregated column
\* holds text, which the call coerces to NaN in its own copy
C21_Witness ==
    /\ InCall
    /\ call.filter_col # NoFilter
    /\ call.col \in daily_df.columns
    /\ \E i \in Indices(daily_df) : daily_df.rows[i][call.col].t = "str"

----------------------------------------------------------------------------
(* The correlation matrix: the rows it is computed over *)

\* the complete rows, in the order of the table
CompleteRowSeq == SelectIdx(AllIdx(daily_df), CompleteRows)

\* the rows with a number in both columns x and y
PairRows(x, y) == {i \in 1..Len(daily_df.rows) : HasNumber(i, x) /\ HasNumber(i, y)}

\* C22: the matrix is computed over complete-case rows only: a row of the
\* daily table is used if and only if every selected column has a number in
\* it, and every pair of columns is correlated over exactly those rows, not
\* over rows that a third selected column excluded.
C22_CompleteCasesOnly ==
    corr.status = "matrix" =>
        /\ {corr.cases[k] : k \in 1..Len(corr.cases)} = CompleteRows
        /\ \A i, j \in 1..Len(corr_metrics) :
              corr.matrix[i][j] =
                  CorrEntry(daily_df, CompleteRowSeq, corr_metrics[i], corr_metrics[j])

\* C22 witness: three columns selected; a row has sleep hours and score but
\* no pace, so it is complete for that pair and excluded all the same, and
\* the correlation of hours and score differs from the one over the pair's rows
C22_Witness ==
    /\ corr.status = "matrix"
    /\ corr_metrics = <<"Sono (h)", "Sono (score)", "Pace (min/km)">>
    /\ Len(corr.cases) = 2
    /\ PairRows("Sono (h)", "Sono (score)") # CompleteRows
    /\ corr.matrix[1][2] = One
    /\ CorrEntry(daily_df,
                 SelectIdx(AllIdx(daily_df), PairRows("Sono (h)", "Sono (score)")),
                 "Sono (h)", "Sono (score)") = Corr(1, 1, 4)

----------------------------------------------------------------------------
(* The pace column after the load *)

\* C23: after the load-and-convert steps, for every day whose pace cell is a
\* valid "mm:ss" string, PaceNum equals mmss_to_minutes of that string and is
\* not null (so the pace insight has days to average).
C23_PaceNumFromPaceString ==
    (conv.fn = "load" /\ IsMmSs(conv.x.s)) =>
        /\ conv.out = mmss_to_minutes(conv.x)
        /\ conv.out # None

----------------------------------------------------------------------------
(* The periods, one inside the other *)

\* the start of a period on the day the clock shows
StartOf(freq) == PeriodStart(freq, clock, daily_df)

\* the rows calc_period aggregates for a period: the index of vals
AggregatedRows(freq, col, only_positive, filter_col) ==
    LET vals == calc_period(daily_df, col, freq, only_positive, "sum", filter_col).frame.vals
    IN {vals[k].i : k \in 1..Len(vals)}

\* the rows whose date parses
DatedRows == {i \in Indices(daily_df) : DateOf(daily_df, i) # NaT}

\* C24: on every day, start(YTD) <= start(QTD) <= start(MTD) <= today and
\* start(WTD) <= today; so, for one table, column and filters, the rows
\* aggregated for MTD are among those for QTD, which are among those for
\* YTD, and the window of TOTAL holds every row with a valid date.
C24_PeriodsNest ==
    /\ StartOf("YTD") <= StartOf("QTD")
    /\ StartOf("QTD") <= StartOf("MTD")
    /\ StartOf("MTD") <= clock
    /\ StartOf("WTD") <= clock
    /\ \A col \in CallCols, only_positive \in BOOLEAN, filter_col \in CallFilters :
          /\ AggregatedRows("MTD", col, only_positive, filter_col)
                \subseteq AggregatedRows("QTD", col, only_positive, filter_col)
          /\ AggregatedRows("QTD", col, only_positive, filter_col)
                \subseteq AggregatedRows("YTD", col, only_positive, filter_col)
    /\ {i \in Indices(daily_df) : WindowMask(DateOf(daily_df, i), StartOf("TOTAL"))} = DatedRows
    /\ (InCall /\ call.col \in daily_df.columns) =>
          /\ frame.start = StartOf(call.freq)
          /\ (call.freq = "TOTAL" /\ call.filter_col = NoFilter) => SubsetRows = DatedRows

\* C24 witness: a call for MTD on a day when the four starts differ and the
\* rows of MTD, QTD, YTD and TOTAL are four different sets
C24_Witness ==
    /\ InCall
    /\ call.freq = "MTD"
    /\ StartOf("YTD") < StartOf("QTD")
    /\ StartOf("QTD") < StartOf("MTD")
    /\ StartOf("MTD") < StartOf("WTD")
    /\ SubsetRows = AggregatedRows("MTD", "Corrida (km)", FALSE, NoFilter)
    /\ SubsetRows # AggregatedRows("QTD", "Corrida (km)", FALSE, NoFilter)
    /\ AggregatedRows("QTD", "Corrida (km)", FALSE, NoFilter)
          # AggregatedRows("YTD", "Corrida (km)", FALSE, NoFilter)
    /\ AggregatedRows("YTD", "Corrida (km)", FALSE, NoFilter) # DatedRows

----------------------------------------------------------------------------
(* The unit converters: the part after the colon *)

\* C25: whenever format_pace or format_hours returns something other than
\* "-" for a non-negative input, the part after the colon is a two-digit
\* number from 00 to 59, never "60", also when the fraction rounds up to a
\* whole minute or hour.
C25_AfterColonBelowSixty ==
    (/\ conv.fn \in {"format_pace", "format_hours"}
     /\ conv.out \notin {Dash, RaisedValueError}
     /\ ToFloat(conv.x).num >= 0) =>
        /\ conv.out.b \in 0..59
        /\ Len(Pad2(conv.out.b)) = 2

----------------------------------------------------------------------------
(* The Notion sync: repeated runs *)

\* the key of the page of date d
KeyOfDate(d) == KeyText("DailyHUD::", IsoFormat(d))

\* the Key texts of all pages
PageKeys == {pages[i].key : i \in 1..Len(pages)}

\* C26: starting from a database in which no two pages share a Key, after
\* any sequence of runs of the sync, one after the other (runs that failed
\* while creating pages and were repeated included), no two pages share a
\* Key; a run that returned has left a page for every distinct date of the
\* daily table, and the run started right after it creates no page.
C26_NoDuplicateKeysAndIdempotent ==
    /\ \A i, j \in 1..Len(pages) : pages[i].key = pages[j].key => i = j
    /\ sync.pc = "returned" =>
          \A d \in SyncDates(daily_df) : KeyOfDate(d) \in PageKeys
    /\ (sync.prev = "returned" /\ sync.pc \in {"creating", "returned"}) =>
          /\ sync.to_create = <<>>
          /\ sync.created = 0
          /\ Len(pages) = sync.base

\* C26 witness: the daily table has two dates and the database a page for
\* each and one more; the third run of the sequence, started right after a
\* run that returned, has returned (0, 0) without adding a page
C26_Witness ==
    /\ sync.run = 3
    /\ sync.prev = "returned"
    /\ sync.pc = "returned"
    /\ sync.created = 0
    /\ Cardinality(SyncDates(daily_df)) = 2
    /\ Len(pages) = sync.base
    /\ Len(pages) >= 3
    /\ \A d \in SyncDates(daily_df) : KeyOfDate(d) \in PageKeys

----------------------------------------------------------------------------
(* The session: properties *)

\* the automatic sync was attempted in the last script run
AutoSyncRan == session.auto \in {"ok", "failed"}

\* C27: within one session the automatic sync runs on a rerun only while
\* the flag auto_synced_dailyhud is unset; the flag is set only after a sync
\* that completed without error, so a failed automatic sync is retried on
\* the next rerun; once one has succeeded, no later rerun performs an
\* automatic sync unless the manual repopulate, which clears the flag,
\* happened in between.
C27_AutoSyncOncePerSession ==
    session.runs > 0 =>
        /\ AutoSyncRan => ~session.before.flag
        /\ (session.flag /\ ~session.before.flag) => session.auto = "ok"
        /\ session.flag => session.succeeded
        /\ (session.auto = "failed" /\ session.manual = "none") => ~session.flag
        /\ session.before.auto = "failed" => AutoSyncRan
        /\ (AutoSyncRan /\ session.before.succeeded) => session.before.cleared

\* C27 witness: an automatic sync succeeded, the manual repopulate cleared
\* the flag, the automatic sync of the next rerun failed, and the rerun
\* after that tried again and succeeded, so the flag is set
C27_Witness ==
    /\ session.before.succeeded
    /\ session.before.cleared
    /\ session.before.auto = "failed"
    /\ ~session.before.flag
    /\ session.auto = "ok"
    /\ session.manual = "none"
    /\ session.flag

----------------------------------------------------------------------------
(* notion_query_all_keys: properties *)

\* C28: each request after the first is sent with the cursor returned by
\* the response before it, the loop is left at the first response whose
\* has_more is false, and no page of results already received is requested
\* again, also after a response with has_more true and no next_cursor (so
\* the query of a finite result set terminates).
C28_NoPageRequestedTwice ==
    /\ \A n \in 2..Len(query.sent) : query.sent[n] = query.got[n - 1].next_cursor
    /\ \A n \in 1..Len(query.got) :
          ~query.got[n].has_more <=> (n = Len(query.got) /\ query.pc = "returned")
    /\ \A i, j \in 1..Len(query.got) :
          query.got[i].first = query.got[j].first => i = j

====
